---- MODULE Spec2Model ----
(***************************************************************************)
(* Translation orchestration of MinecraftModsLocalizer:                    *)
(*   TranslateDataWithSimilarity  (pkg/processors/betterquesting_processor) *)
(*   OpenAITranslator.translateBatch and the response decoders             *)
(*                                (internal/processors/language_file_test) *)
(*   ValidateBatchResults, CreateTranslator        (pkg/translators/types) *)
(*   ProcessLanguageFile          (internal/processors/language_file.go)   *)
(*                                                                         *)
(* Texts are sequences of one-character strings, so that the decoders      *)
(* work on the characters of a response as the Go code does.  A nil slice  *)
(* of keys is the empty sequence: the orchestrator never hands a non-nil   *)
(* empty key slice together with texts.                                    *)
(***************************************************************************)
EXTENDS Integers, Sequences, FiniteSets, TLC

\* ------------------------------------------------------------------ bounds
MaxKeys == 3
MaxBatch == 2

\* --------------------------------------------------------------- alphabet
KeyNames == <<"k1", "k2", "k3", "k4", "k5">>
AllKeys == {KeyNames[i] : i \in 1..MaxKeys}
Digit(n) == <<"0", "1", "2", "3", "4", "5", "6", "7", "8", "9">>[n + 1]
\* the characters of a key name
KeyChars(k) == <<"k", Digit(CHOOSE i \in 1..Len(KeyNames) : KeyNames[i] = k)>>
Texts == {<<"a">>, <<"b">>}
\* what the service may answer for a source text
Tr(text) == IF text = <<"a">> THEN <<"A">> ELSE <<"B">>
Other == <<"Z">>
Cached == <<"D">>
Empty == <<>>

\* ------------------------------------------------------- strings package
RECURSIVE TrimLeft(_)
TrimLeft(s) == IF s # <<>> /\ Head(s) = " " THEN TrimLeft(Tail(s)) ELSE s
RECURSIVE TrimRight(_)
TrimRight(s) ==
  IF s # <<>> /\ s[Len(s)] = " " THEN TrimRight(SubSeq(s, 1, Len(s) - 1)) ELSE s
TrimSpace(s) == TrimRight(TrimLeft(s))
HasPrefix(s, p) == Len(s) >= Len(p) /\ SubSeq(s, 1, Len(p)) = p
\* strings.Index for a single byte: 0-based index of the first occurrence, -1 if none
Index(s, c) ==
  IF \E i \in 1..Len(s) : s[i] = c
  THEN (CHOOSE i \in 1..Len(s) : s[i] = c /\ \A j \in 1..(i - 1) : s[j] # c) - 1
  ELSE -1
\* s[from:] with a 0-based start
SliceFrom(s, from) == SubSeq(s, from + 1, Len(s))

\* ---------------------------------------------------------------- results
BatchTranslationResult(in, out, valid, err) ==
  [Input |-> in, Output |-> out, IsValid |-> valid, Error |-> err]

\* --------------------------------------------------------------- responses
\* A response body is either JSON (an object whose "translations" array holds
\* objects {key, translation} or strings) or any other text, kept as its lines.
ObjItem(k, t) == [obj |-> TRUE, key |-> k, translation |-> t]
StrItem(t) == [obj |-> FALSE, key |-> "", translation |-> t]
JsonResp(items) == [kind |-> "json", items |-> items, lines |-> << <<"{">> >>]
TextResp(lines) == [kind |-> "text", items |-> <<>>, lines |-> lines]

\* json.Unmarshal into BatchTranslationResponse: fails on text and on an array
\* element that is not an object
UnmarshalKeyedOk(resp) ==
  resp.kind = "json" /\ \A i \in 1..Len(resp.items) : resp.items[i].obj
\* json.Unmarshal into PlainBatchTranslationResponse
UnmarshalPlainOk(resp) ==
  resp.kind = "json" /\ \A i \in 1..Len(resp.items) : ~resp.items[i].obj

\* the numbered-line decoder, one input position (0-based i as in the Go loop)
ParseLine(keys, inputs, lines, i) ==
  LET input == inputs[i + 1] IN
  IF i < Len(lines)
  THEN LET line == TrimSpace(lines[i + 1])
           numberPrefix == <<Digit(i + 1), ".">>
       IN IF HasPrefix(line, numberPrefix)
          THEN LET lineContent == TrimSpace(SliceFrom(line, Len(numberPrefix)))
                   colonIndex == Index(lineContent, ":")
                   valuePart == TrimSpace(SliceFrom(lineContent, colonIndex + 1))
                   output ==
                     IF keys # <<>> /\ Len(keys) = Len(inputs)
                     THEN IF colonIndex > 0
                          THEN IF Len(valuePart) >= 2 /\ valuePart[1] = "\""
                                  /\ valuePart[Len(valuePart)] = "\""
                               THEN SubSeq(valuePart, 2, Len(valuePart) - 1)
                               ELSE valuePart
                          ELSE lineContent
                     ELSE lineContent
               IN BatchTranslationResult(input, output,
                                         output # <<>> /\ output # input, "")
          ELSE BatchTranslationResult(input, input, FALSE,
                                      "Failed to parse translation from response")
  ELSE BatchTranslationResult(input, input, FALSE, "Missing translation in response")

\* a chunk size that is always one
MinOne(a, b) == 1
Min(a, b) == IF a < b THEN a ELSE b

\* a decoder that has results only for the positions that have a line
parseBatchResponseLinesOnly(keys, inputs, lines) ==
  [p \in 1..Min(Len(inputs), Len(lines)) |-> ParseLine(keys, inputs, lines, p - 1)]

parseBatchResponse(keys, inputs, lines) ==
  [p \in 1..Len(inputs) |-> ParseLine(keys, inputs, lines, p - 1)]

\* translationMap: the last entry of a key wins
TranslationMapHas(items, k) == \E j \in 1..Len(items) : items[j].key = k
TranslationMapGet(items, k) ==
  items[CHOOSE j \in 1..Len(items) :
          items[j].key = k /\ \A l \in (j + 1)..Len(items) : items[l].key # k].translation

ParseKeyedItem(keys, inputs, items, i) ==
  LET input == inputs[i + 1] IN
  IF i < Len(keys)
  THEN IF TranslationMapHas(items, keys[i + 1])
          /\ TranslationMapGet(items, keys[i + 1]) # <<>>
       THEN LET translation == TranslationMapGet(items, keys[i + 1])
            IN BatchTranslationResult(input, translation, translation # input, "")
       ELSE BatchTranslationResult(input, input, FALSE,
                                   "Translation not found in structured response")
  ELSE BatchTranslationResult(input, input, FALSE, "Key index out of range")

ParsePlainItem(inputs, items, i) ==
  LET input == inputs[i + 1] IN
  IF i < Len(items)
  THEN LET output == items[i + 1].translation
       IN BatchTranslationResult(input, output, output # <<>> /\ output # input, "")
  ELSE BatchTranslationResult(input, input, FALSE,
                              "Translation not found in structured response")

parseStructuredBatchResponse(keys, inputs, resp) ==
  IF keys # <<>> /\ Len(keys) = Len(inputs)
  THEN IF ~UnmarshalKeyedOk(resp)
       THEN parseBatchResponse(keys, inputs, resp.lines)
       ELSE [p \in 1..Len(inputs) |-> ParseKeyedItem(keys, inputs, resp.items, p - 1)]
  ELSE IF ~UnmarshalPlainOk(resp)
       THEN parseBatchResponse(keys, inputs, resp.lines)
       ELSE [p \in 1..Len(inputs) |-> ParsePlainItem(inputs, resp.items, p - 1)]

\* a validation that only counts the results
ValidateBatchResultsByCount(inputs, res) ==
  [IsValid |-> Len(res) >= Len(inputs), MissingInputs |-> {},
   MissingCount |-> IF Len(res) >= Len(inputs) THEN 0 ELSE Len(inputs) - Len(res)]

\* ValidateBatchResults: the distinct inputs that are the Input of no result
ValidateBatchResults(inputs, res) ==
  LET inputSet == {inputs[i] : i \in 1..Len(inputs)}
      resultSet == {res[i].Input : i \in 1..Len(res)}
      missingInputs == {input \in inputSet : input \notin resultSet}
  IN [IsValid |-> missingInputs = {}, MissingInputs |-> missingInputs,
      MissingCount |-> Cardinality(missingInputs)]

\* --------------------------------------------------------- TermDictionary
\* The entries of the target language: source text -> translation.
\* a lookup that never finds an entry
GetTranslationFoundNever(d, original) == FALSE
GetTranslationFound(d, original) == original \in DOMAIN d
GetTranslation(d, original) == d[original]
\* an entry that keeps the source text in place of the translation
AddTermSource(d, original, translation) ==
  [t \in DOMAIN d \cup {original} |-> IF t = original THEN original ELSE d[t]]
AddTerm(d, original, translation) ==
  [t \in DOMAIN d \cup {original} |-> IF t = original THEN translation ELSE d[t]]

\* ------------------------------------------------------------ the service
\* What the service does with one item of a chunk request: a translation, some
\* other text, the source text echoed, an empty string, or nothing at all.
Behaviours == {"tr", "other", "same", "empty", "omit"}
OutFor(text, b) ==
  CASE b = "tr" -> Tr(text)
    [] b = "other" -> Other
    [] b = "same" -> text
    [] OTHER -> Empty

RECURSIVE Answered(_, _)
\* the positions of a chunk the service answers, in request order
Answered(beh, n) ==
  IF n = 0 THEN <<>>
  ELSE Answered(beh, n - 1) \o (IF beh[n] = "omit" THEN <<>> ELSE <<n>>)

\* a structured reply: one {key, translation} object per answered item, or one
\* string per answered item when the request had no keys
JsonFor(keyBatch, textBatch, beh) ==
  LET pos == Answered(beh, Len(textBatch))
  IN JsonResp([j \in 1..Len(pos) |->
                 IF keyBatch = <<>>
                 THEN StrItem(OutFor(textBatch[pos[j]], beh[pos[j]]))
                 ELSE ObjItem(keyBatch[pos[j]], OutFor(textBatch[pos[j]], beh[pos[j]]))])

\* a numbered-line reply in the format of the keyed prompt: N. "key": "value"
NumberedLine(n, key, out) ==
  <<Digit(n), ".", " ", "\"">> \o KeyChars(key) \o <<"\"", ":", " ", "\"">> \o out
    \o <<"\"">>
\* the format of the prompt without keys: N. value
PlainLine(n, out) == <<Digit(n), ".", " ">> \o out
TextFor(keyBatch, textBatch, beh) ==
  LET pos == Answered(beh, Len(textBatch))
  IN IF pos = <<>> THEN TextResp(<< <<>> >>)
     ELSE TextResp([j \in 1..Len(pos) |->
                      IF keyBatch = <<>>
                      THEN PlainLine(pos[j], OutFor(textBatch[pos[j]], beh[pos[j]]))
                      ELSE NumberedLine(pos[j], keyBatch[pos[j]],
                                        OutFor(textBatch[pos[j]], beh[pos[j]]))])

\* outcome of one single-item call: an error, or the returned text
SingleOutcomes(text) ==
  {[err |-> TRUE, out |-> Empty]} \cup
  {[err |-> FALSE, out |-> o] : o \in {Tr(text), Other, text, Empty}}

\* parseStructuredSingleResponse: a {"translation": t} object gives t, or an
\* error when t is empty; any other body is returned as it is
parseStructuredSingleResponse(resp) ==
  IF resp.kind = "json"
  THEN IF resp.translation = <<>>
       THEN [err |-> TRUE, out |-> Empty]
       ELSE [err |-> FALSE, out |-> resp.translation]
  ELSE [err |-> FALSE, out |-> TrimSpace(resp.raw)]

\* the reply bodies the service may give to a single-item request
SingleResponses(text) ==
  {[kind |-> k, translation |-> o, raw |-> o] :
     k \in {"json", "text"}, o \in {Tr(text), Other, text, Empty}}

\* ------------------------------------------------------------------ state
VARIABLES
  engine,        \* the engine name given to ProcessLanguageFile; "custom": a caller
                 \* hands its own Translator to TranslateDataWithSimilarity
  apiKey,        \* OpenAITranslator: whether an API key was found
  stub,          \* how the service answers: free, or fixed per source text
  batchSize,
  data,          \* the input mapping key -> text
  dictFile,      \* dictionary.json: text -> translation of the target language
  dict0,         \* the dictionary file as it was when the first run started
  translator,    \* "none", "openai" or "other" (a Translator that is no OpenAITranslator)
  pc,
  dict,          \* the TermDictionary in memory
  todo,          \* keys the range loop over data has not visited yet
  result,
  returned,      \* "none", "map" or "error"
  pendingKeys, pendingTexts,
  keys, texts,   \* translateBatch: the slices still to send
  results,       \* translateBatch: []BatchTranslationResult
  idx,           \* the index of the fallback loop over pendingTexts
  itemRes,       \* key -> outcome of the key's own service call or chunk position
  omitted,       \* keys whose chunk reply carried no translation for them
  sentTexts,     \* texts that went out to the service
  requests,      \* requests sent to the service
  retried,       \* texts sent again by the retry loop of translateBatch
  failedKeys,    \* keys of the items of a chunk request or single call that failed
  failures,      \* chunk requests that failed
  chunks,        \* the chunk requests sent so far: the keys and texts of each
  call, ret,     \* a function called on its own: its arguments and what it returned
  fileAtStart,   \* what dictionary.json is when the first run starts
  reads, writes, \* LoadFromFile / SaveToFile calls of the run
  callbacks,     \* calls of the batch result callback
  outputWritten, \* ProcessLanguageFile wrote the output file
  run, prev,     \* the run number, and what the first run returned
  dresp,         \* the reply body handed to the decoders on their own
  procs          \* two runs started against one dictionary.json: each one's state

vars == <<engine, apiKey, stub, batchSize, data, dictFile, dict0, translator, pc, dict,
          todo, result, returned, pendingKeys, pendingTexts, keys, texts, results, idx,
          itemRes, omitted, sentTexts, requests, retried, failedKeys, failures, reads,
          writes, callbacks, outputWritten, run, prev, dresp, chunks, call, ret,
          fileAtStart, procs>>

inputVars == <<engine, apiKey, stub, batchSize, data, dict0, dresp, call, ret, fileAtStart,
               procs>>
batchVars == <<pendingKeys, pendingTexts, keys, texts, results, idx>>
ghostVars == <<itemRes, omitted, sentTexts, requests, retried, failedKeys, failures, chunks>>
ioVars == <<reads, writes, callbacks>>

EmptyMap == [k \in {} |-> <<>>]
FreeService == [mode |-> "any", beh |-> [t \in Texts |-> "any"]]

\* ------------------------------------------------------- service replies
Failure == [err |-> TRUE, out |-> Empty]

\* replies to a chunk request: a transport or service failure, or a body
ChunkReplies(keyBatch, textBatch) ==
  LET n == Len(textBatch)
      behs == {beh \in [1..n -> Behaviours] :
                 \A i \in 1..n : stub.beh[textBatch[i]] \in {"any", beh[i]}}
      shapes == IF stub.mode = "any" THEN {"json", "text"} ELSE {stub.mode}
  IN {[fail |-> TRUE, body |-> TextResp(<< <<>> >>), beh |-> [i \in 1..n |-> "omit"]] :
        x \in IF stub.mode = "any" THEN {1} ELSE {}}
     \cup {[fail |-> FALSE, body |-> JsonFor(keyBatch, textBatch, beh), beh |-> beh] :
             beh \in IF "json" \in shapes THEN behs ELSE {}}
     \cup {[fail |-> FALSE, body |-> TextFor(keyBatch, textBatch, beh), beh |-> beh] :
             beh \in IF "text" \in shapes THEN behs ELSE {}}

\* OpenAITranslator.TranslateWithExamples: the outcomes of one call.  The examples
\* only change the prompt, so Translate and TranslateWithExamples share them.
TranslateWithExamples(text) ==
  IF ~apiKey THEN {Failure}
  ELSE IF stub.beh[text] = "any"
       THEN {Failure} \cup {parseStructuredSingleResponse(r) : r \in SingleResponses(text)}
       ELSE IF stub.beh[text] = "omit" THEN {Failure}
       ELSE {parseStructuredSingleResponse(
               [kind |-> stub.mode, translation |-> OutFor(text, stub.beh[text]),
                raw |-> OutFor(text, stub.beh[text])])}

\* Translator.Translate of the translator in use
Translate(text) ==
  IF translator = "openai" THEN TranslateWithExamples(text)
  ELSE IF stub.beh[text] = "any" THEN SingleOutcomes(text)
       ELSE IF stub.beh[text] = "omit" THEN {Failure}
       ELSE {[err |-> FALSE, out |-> OutFor(text, stub.beh[text])]}

\* whether a call of Translate reaches the service
Reaches == translator = "other" \/ apiKey

RECURSIVE Perms(_)
\* the orders in which a Go map may be iterated
Perms(S) ==
  IF S = {} THEN {<<>>}
  ELSE UNION {{<<x>> \o q : q \in Perms(S \ {x})} : x \in S}

Range(f) == {f[x] : x \in DOMAIN f}
Put(m, k, v) == [x \in DOMAIN m \cup {k} |-> IF x = k THEN v ELSE m[x]]

\* ------------------------------------------------------------------- Init
Entries ==
  {[engine |-> "openai", apiKey |-> TRUE], [engine |-> "openai", apiKey |-> FALSE],
   [engine |-> "deepl", apiKey |-> FALSE], [engine |-> "custom", apiKey |-> FALSE]}

\* The input mappings of up to MaxKeys keys.  Keys are opaque and the range loops
\* visit them in any order, so the mappings whose texts are in order along
\* k1, k2, ... stand for all the others.
TextRank(t) == IF t = <<"a">> THEN 1 ELSE 2
InputMappings ==
  UNION {{m \in [{KeyNames[i] : i \in 1..n} -> Texts] :
            \A i \in 1..(n - 1) : TextRank(m[KeyNames[i]]) <= TextRank(m[KeyNames[i + 1]])} :
         n \in 0..MaxKeys}

\* individual mode, and batch mode with chunks of MaxBatch
BatchSizes == {1, MaxBatch}

InitCore ==
  /\ dict = EmptyMap
  /\ todo = {}
  /\ result = EmptyMap
  /\ returned = "none"
  /\ results = <<>>
  /\ idx = 0
  /\ itemRes = EmptyMap
  /\ omitted = {}
  /\ sentTexts = {}
  /\ requests = 0
  /\ retried = {}
  /\ failedKeys = {}
  /\ failures = 0
  /\ chunks = <<>>
  /\ reads = 0 /\ writes = 0 /\ callbacks = 0
  /\ outputWritten = FALSE

InitRest == InitCore /\ pendingKeys = <<>> /\ pendingTexts = <<>>

InitRun == InitRest /\ keys = <<>> /\ texts = <<>>

NoResponse == TextResp(<< <<>> >>)
\* no second run is going on
NoProcs == <<>>
\* no function is called on its own
NoCall == call = <<>> /\ ret = <<>>

InitInputs ==
  /\ procs = NoProcs
  /\ \E e \in Entries : engine = e.engine /\ apiKey = e.apiKey
  /\ batchSize \in BatchSizes
  /\ data \in InputMappings
  /\ dictFile \in UNION {[S -> {Cached}] : S \in SUBSET Texts}
  /\ dict0 = dictFile
  /\ translator = IF engine = "custom" THEN "other" ELSE "none"
  /\ pc = IF engine = "custom" THEN "load" ELSE "create"
  /\ run = 1
  /\ prev = [returned |-> "none", result |-> EmptyMap]

Init ==
  /\ InitInputs /\ InitRun /\ stub = FreeService /\ dresp = NoResponse /\ NoCall
  /\ fileAtStart = "valid"

\* ---------------------------------------------------------------- actions
\* ProcessLanguageFile: CreateTranslator(engine); an error ends the run
CreateTranslator ==
  /\ pc = "create"
  /\ translator' = IF engine = "openai" THEN "openai" ELSE "none"
  /\ returned' = IF engine = "openai" THEN returned ELSE "error"
  /\ pc' = IF engine = "openai" THEN "load" ELSE "done"
  /\ UNCHANGED <<inputVars, dictFile, dict, todo, result, batchVars, ghostVars, ioVars,
                 outputWritten, run, prev>>

\* What LoadFromFile leaves in td.Terms.  A file that is missing, cannot be read
\* or is no JSON leaves the empty map of NewTermDictionary; entries of the wrong
\* type are skipped and the others loaded; "terms": null sets the map to nil, which
\* reads as a map without entries.
FileKinds == {"valid", "missing", "unreadable", "malformed", "illTyped", "nullTerms"}
LoadedTerms ==
  IF run = 1 /\ fileAtStart \in {"missing", "unreadable", "malformed", "nullTerms"}
  THEN EmptyMap
  ELSE dictFile
\* td.Terms is nil: it was loaded from "terms": null
TermsNil == run = 1 /\ fileAtStart = "nullTerms" /\ reads > 0
\* AddTerm assigns to an entry of td.Terms, which panics when the map is nil
AddTermReturns(called) == ~(called /\ TermsNil)

\* TranslateDataWithSimilarity up to the loops: the dictionary is loaded
LoadFromFile ==
  /\ pc = "load"
  /\ dict' = LoadedTerms
  /\ reads' = reads + 1
  /\ todo' = DOMAIN data
  /\ pc' = IF batchSize > 1 THEN "partition" ELSE IF data = EmptyMap THEN "save" ELSE "single"
  /\ UNCHANGED <<inputVars, dictFile, translator, result, returned, batchVars, ghostVars,
                 writes, callbacks, outputWritten, run, prev>>

\* batch mode, one iteration of the range loop: a cache hit goes to the result,
\* a miss is queued
Partition ==
  /\ pc = "partition"
  /\ \E key \in todo :
       LET value == data[key] IN
       /\ todo' = todo \ {key}
       /\ IF GetTranslationFound(dict, value)
          THEN /\ result' = Put(result, key, GetTranslation(dict, value))
               /\ UNCHANGED <<pendingKeys, pendingTexts>>
          ELSE /\ pendingTexts' = Append(pendingTexts, value)
               /\ pendingKeys' = Append(pendingKeys, key)
               /\ UNCHANGED result
  /\ UNCHANGED <<inputVars, dictFile, translator, pc, dict, returned, keys, texts, results,
                 idx, ghostVars, ioVars, outputWritten, run, prev>>

\* batch mode after the range loop: nothing pending, the fallback loop of another
\* Translator, or translateBatch, which refuses to start without an API key
Dispatch ==
  /\ pc = "partition" /\ todo = {}
  /\ pc' = IF Len(pendingTexts) = 0 THEN "save"
           ELSE IF translator # "openai" THEN "fallback"
           ELSE IF ~apiKey THEN "done"
           ELSE "chunk"
  /\ returned' = IF pc' = "done" THEN "error" ELSE returned
  /\ result' = IF pc' = "done" THEN EmptyMap ELSE result
  /\ keys' = IF pc' = "chunk" THEN pendingKeys ELSE keys
  /\ texts' = IF pc' = "chunk" THEN pendingTexts ELSE texts
  /\ UNCHANGED <<inputVars, dictFile, translator, dict, todo, pendingKeys, pendingTexts,
                 results, idx, ghostVars, ioVars, outputWritten, run, prev>>


\* a chunk failure that leaves the Output of its items empty
ChunkResultsNoPassthrough(keyBatch, textBatch, reply) ==
  IF reply.fail
  THEN [i \in 1..Len(textBatch) |->
          BatchTranslationResult(textBatch[i], Empty, FALSE, "API request failed")]
  ELSE parseStructuredBatchResponse(keyBatch, textBatch, reply.body)

\* the result of one chunk request: every item failed with the error, or decoded
ChunkResults(keyBatch, textBatch, reply) ==
  IF reply.fail
  THEN [i \in 1..Len(textBatch) |->
          BatchTranslationResult(textBatch[i], textBatch[i], FALSE, "API request failed")]
  ELSE parseStructuredBatchResponse(keyBatch, textBatch, reply.body)

RECURSIVE AddValid(_, _, _)
\* batchResultCallback: every valid result of the first n goes into the dictionary
AddValid(d, batchResults, n) ==
  IF n = 0 THEN d
  ELSE LET before == AddValid(d, batchResults, n - 1)
       IN IF batchResults[n].IsValid
          THEN AddTerm(before, batchResults[n].Input, batchResults[n].Output)
          ELSE before

\* translateBatch, one iteration of the chunk loop
TranslateChunk ==
  /\ pc = "chunk" /\ Len(texts) > 0
  /\ LET currentBatchSize == Min(batchSize, Len(texts))
         textBatch == SubSeq(texts, 1, currentBatchSize)
         keyBatch == IF keys # <<>> THEN SubSeq(keys, 1, currentBatchSize) ELSE <<>>
     IN \E reply \in ChunkReplies(keyBatch, textBatch) :
          LET batchResults == ChunkResults(keyBatch, textBatch, reply) IN
          /\ AddTermReturns(~reply.fail /\ \E i \in 1..Len(batchResults) :
                                             batchResults[i].IsValid)
          /\ texts' = SubSeq(texts, currentBatchSize + 1, Len(texts))
          /\ keys' = IF keys # <<>> THEN SubSeq(keys, currentBatchSize + 1, Len(keys))
                     ELSE keys
          /\ results' = results \o batchResults
          /\ dict' = IF reply.fail THEN dict
                     ELSE AddValid(dict, batchResults, Len(batchResults))
          /\ dictFile' = IF reply.fail THEN dictFile ELSE dict'
          /\ writes' = IF reply.fail THEN writes ELSE writes + 1
          /\ callbacks' = IF reply.fail THEN callbacks ELSE callbacks + 1
          /\ requests' = requests + 1
          /\ sentTexts' = sentTexts \cup Range(textBatch)
          /\ itemRes' = [k \in DOMAIN itemRes \cup Range(keyBatch) |->
                           IF k \in Range(keyBatch)
                           THEN batchResults[CHOOSE i \in 1..Len(keyBatch) : keyBatch[i] = k]
                           ELSE itemRes[k]]
          /\ failedKeys' = IF reply.fail THEN failedKeys \cup Range(keyBatch) ELSE failedKeys
          /\ failures' = IF reply.fail THEN failures + 1 ELSE failures
          /\ chunks' = Append(chunks, [keys |-> keyBatch, texts |-> textBatch])
          /\ omitted' = IF reply.fail THEN omitted
                        ELSE omitted \cup {keyBatch[i] : i \in {j \in 1..Len(keyBatch) :
                                                                 reply.beh[j] = "omit"}}
  /\ UNCHANGED <<inputVars, translator, pc, todo, result, returned, pendingKeys,
                 pendingTexts, idx, retried, reads, outputWritten, run, prev>>

\* translateBatch after the chunk loop: validation, and one single-item call for
\* each missing input, in the order the map of missing inputs is iterated
ValidateAndRetry ==
  /\ pc = "chunk" /\ Len(texts) = 0
  /\ LET originalTexts == [i \in 1..Len(results) |-> results[i].Input]
         validation == ValidateBatchResults(originalTexts, results)
     IN \E order \in Perms(validation.MissingInputs) :
        \E outs \in [1..Len(order) -> UNION {Translate(t) : t \in Texts}] :
          /\ \A i \in 1..Len(order) : outs[i] \in Translate(order[i])
          /\ results' = results \o
               [i \in 1..Len(order) |->
                  IF outs[i].err
                  THEN BatchTranslationResult(order[i], order[i], FALSE, "API request failed")
                  ELSE BatchTranslationResult(order[i], outs[i].out, TRUE, "")]
          /\ retried' = retried \cup Range(order)
          /\ sentTexts' = sentTexts \cup Range(order)
          /\ requests' = requests + Len(order)
  /\ pc' = "collect"
  /\ UNCHANGED <<inputVars, dictFile, translator, dict, todo, result, returned, pendingKeys,
                 pendingTexts, keys, texts, idx, itemRes, omitted, failedKeys, failures,
                 chunks, ioVars, outputWritten, run, prev>>

\* resultMap: the last result of an input text wins
ResultMapHas(res, value) == \E i \in 1..Len(res) : res[i].Input = value
ResultMapGet(res, value) ==
  res[CHOOSE i \in 1..Len(res) :
        res[i].Input = value /\ \A j \in (i + 1)..Len(res) : res[j].Input # value]

\* the value a pending key gets from the batch results
CollectValue(res, value) ==
  IF ResultMapHas(res, value)
  THEN IF ResultMapGet(res, value).IsValid THEN ResultMapGet(res, value).Output ELSE value
  ELSE value

\* batch mode with a Translator that is no OpenAITranslator: one iteration of the
\* loop over pendingTexts
Fallback ==
  /\ pc = "fallback"
  /\ LET i == idx + 1
         value == pendingTexts[i]
     IN \E o \in Translate(value) :
          /\ AddTermReturns(~o.err)
          /\ result' = Put(result, pendingKeys[i], IF o.err THEN value ELSE o.out)
          /\ dict' = IF o.err THEN dict ELSE AddTerm(dict, value, o.out)
          /\ itemRes' = Put(itemRes, pendingKeys[i],
                            BatchTranslationResult(value, IF o.err THEN value ELSE o.out,
                                                   ~o.err,
                                                   IF o.err THEN "API request failed" ELSE ""))
          /\ failedKeys' = IF o.err THEN failedKeys \cup {pendingKeys[i]} ELSE failedKeys
          /\ idx' = i
          /\ pc' = IF i = Len(pendingTexts) THEN "save" ELSE "fallback"
          /\ sentTexts' = sentTexts \cup {value}
          /\ requests' = requests + 1
  /\ UNCHANGED <<inputVars, dictFile, translator, todo, returned, pendingKeys, pendingTexts,
                 keys, texts, results, omitted, retried, failures, chunks, ioVars,
                 outputWritten, run, prev>>

\* individual mode, one iteration of the range loop over data
TranslateOne ==
  /\ pc = "single"
  /\ \E key \in todo :
       LET value == data[key] IN
       /\ todo' = todo \ {key}
       /\ pc' = IF todo' = {} THEN "save" ELSE "single"
       /\ IF GetTranslationFound(dict, value)
          THEN /\ result' = Put(result, key, GetTranslation(dict, value))
               /\ UNCHANGED <<dict, itemRes, sentTexts, requests, failedKeys>>
          ELSE \E o \in Translate(value) :
                 /\ AddTermReturns(~o.err)
                 /\ result' = Put(result, key, IF o.err THEN value ELSE o.out)
                 /\ dict' = IF o.err THEN dict ELSE AddTerm(dict, value, o.out)
                 /\ itemRes' = Put(itemRes, key,
                                   BatchTranslationResult(value,
                                                          IF o.err THEN value ELSE o.out,
                                                          ~o.err,
                                                          IF o.err THEN "API request failed"
                                                          ELSE ""))
                 /\ failedKeys' = IF o.err THEN failedKeys \cup {key} ELSE failedKeys
                 /\ sentTexts' = IF Reaches THEN sentTexts \cup {value} ELSE sentTexts
                 /\ requests' = IF Reaches THEN requests + 1 ELSE requests
  /\ UNCHANGED <<inputVars, dictFile, translator, returned, batchVars, omitted, retried,
                 failures, chunks, ioVars, outputWritten, run, prev>>

\* a collection that leaves out the keys whose result is not valid
CollectResultsDropInvalid(res, pKeys, pValues, before) ==
  [k \in DOMAIN before \cup
          {pKeys[i] : i \in {j \in 1..Len(pKeys) : ResultMapHas(res, pValues[j])
                                                     /\ ResultMapGet(res, pValues[j]).IsValid}} |->
     IF k \in Range(pKeys)
     THEN CollectValue(res, pValues[CHOOSE i \in 1..Len(pKeys) : pKeys[i] = k])
     ELSE before[k]]

\* the results of translateBatch go into the result mapping, key by key
CollectResults(res, pKeys, pValues, before) ==
  [k \in DOMAIN before \cup Range(pKeys) |->
     IF k \in Range(pKeys)
     THEN CollectValue(res, pValues[CHOOSE i \in 1..Len(pKeys) : pKeys[i] = k])
     ELSE before[k]]

\* an end of the run that does not save the dictionary
SaveToFileSkipped ==
  /\ pc \in {"collect", "save"}
  /\ result' = IF pc = "collect"
               THEN CollectResults(results, pendingKeys, pendingTexts, result)
               ELSE result
  /\ returned' = "map"
  /\ pc' = IF engine = "custom" THEN "done" ELSE "write"
  /\ UNCHANGED <<inputVars, dictFile, translator, dict, todo, batchVars, ghostVars, ioVars,
                 outputWritten, run, prev>>

\* the end of TranslateDataWithSimilarity: after translateBatch returned its results
\* are collected; then, in every mode, the dictionary is saved and the result
\* returned
SaveToFile ==
  /\ pc \in {"collect", "save"}
  /\ result' = IF pc = "collect"
               THEN CollectResults(results, pendingKeys, pendingTexts, result)
               ELSE result
  /\ dictFile' = dict
  /\ writes' = writes + 1
  /\ returned' = "map"
  /\ pc' = IF engine = "custom" THEN "done" ELSE "write"
  /\ UNCHANGED <<inputVars, translator, dict, todo, batchVars, ghostVars, reads,
                 callbacks, outputWritten, run, prev>>

\* ProcessLanguageFile: the translated data is written to the output file
WriteFile ==
  /\ pc = "write"
  /\ outputWritten' = TRUE
  /\ pc' = "done"
  /\ UNCHANGED <<inputVars, dictFile, translator, dict, todo, result, returned, batchVars,
                 ghostVars, ioVars, run, prev>>

Next ==
  \/ CreateTranslator
  \/ LoadFromFile
  \/ Partition
  \/ Dispatch
  \/ TranslateChunk
  \/ ValidateAndRetry
  \/ Fallback
  \/ TranslateOne
  \/ SaveToFile
  \/ WriteFile

Spec == Init /\ [][Next]_vars

\* ------------------------------------------------- the decoders on their own
\* One chunk of translateBatchChunk and one reply body: the chunk's keys (nil when
\* the caller has none), its texts, and what sendRequestWithStructuredOutput
\* returned for it.
DecodeKeys == {KeyNames[i] : i \in 1..MaxBatch} \cup {"kx"}
DecodeOutputs == {<<"A">>, <<"a">>, <<>>}

SeqsUpTo(S, n) == UNION {[1..m -> S] : m \in 0..n}

\* bodies that are JSON: {key, translation} objects, or plain strings
KeyedBodies ==
  {JsonResp(items) :
     items \in SeqsUpTo({ObjItem(k, t) : k \in DecodeKeys, t \in DecodeOutputs}, MaxBatch)}
PlainBodies ==
  {JsonResp(items) : items \in SeqsUpTo({StrItem(t) : t \in DecodeOutputs}, MaxBatch)}

\* lines of a body that is no JSON: numbered lines with and without a key, a line
\* without its number, a bare number, a blank line, a preamble, a value that
\* starts with the colon, a line with blanks around it
ReplyLines ==
  UNION {{NumberedLine(n, KeyNames[n], out) : out \in DecodeOutputs}
         \cup {<<Digit(n), ".", " ", "A">>} : n \in 1..MaxBatch}
  \cup {<<"A">>, <<"1", ".">>, <<>>, <<"H", "i", ":">>, <<"1", ".", " ", ":", "A">>,
        <<" ", "2", ".", " ", "a", " ">>}

\* sendRequestWithStructuredOutput returns the content with the white space
\* around it trimmed; the empty content splits into one empty line
Trimmed(lines) ==
  \/ lines = << <<>> >>
  \/ /\ lines[1] # <<>> /\ Head(lines[1]) # " "
     /\ lines[Len(lines)] # <<>> /\ lines[Len(lines)][Len(lines[Len(lines)])] # " "
TextBodies ==
  {TextResp(lines) : lines \in {l \in SeqsUpTo(ReplyLines, MaxBatch) : l # <<>> /\ Trimmed(l)}}

DecodeResponses == KeyedBodies \cup PlainBodies \cup TextBodies

InitDecode ==
  /\ procs = NoProcs
  /\ engine = "openai" /\ apiKey = TRUE /\ translator = "openai"
  /\ stub = FreeService
  /\ batchSize = MaxBatch
  /\ data = EmptyMap /\ dictFile = EmptyMap /\ dict0 = EmptyMap
  /\ run = 1 /\ prev = [returned |-> "none", result |-> EmptyMap]
  /\ InitRest
  /\ pc = "request"
  /\ \E n \in 1..MaxBatch :
       /\ texts \in [1..n -> Texts]
       /\ keys \in {<<>>, [i \in 1..n |-> KeyNames[i]]}
  /\ dresp \in DecodeResponses
  /\ NoCall /\ fileAtStart = "valid"

\* translateBatchChunk from its request on: the request fails, or its body is
\* decoded
DecodeChunk ==
  /\ pc = "request"
  /\ \E fail \in BOOLEAN :
       /\ results' = ChunkResults(keys, texts, [fail |-> fail, body |-> dresp])
       /\ failures' = IF fail THEN 1 ELSE 0
  /\ requests' = 1
  /\ pc' = "decoded"
  /\ UNCHANGED <<inputVars, dictFile, translator, dict, todo, result, returned, pendingKeys,
                 pendingTexts, keys, texts, idx, itemRes, omitted, sentTexts, retried,
                 failedKeys, chunks, ioVars, outputWritten, run, prev>>

SpecDecode == InitDecode /\ [][DecodeChunk]_vars

\* ------------------------------------------------------------ the second run
\* Services that answer by the text alone: the shape of the body is fixed, and so
\* is what each text gets.  A numbered-line body that leaves an item out moves the
\* later lines up, so what the decoder makes of an item would depend on its
\* neighbours; such a service is no function of the text.
StubBehaviours == {"tr", "same", "empty", "omit"}
DeterministicStubs ==
  {[mode |-> "json", beh |-> b] : b \in [Texts -> StubBehaviours]}
  \cup {[mode |-> "text", beh |-> b] : b \in [Texts -> StubBehaviours \ {"omit"}]}

InitIdem ==
  /\ InitInputs /\ InitRun /\ stub \in DeterministicStubs /\ dresp = NoResponse /\ NoCall
  /\ fileAtStart = "valid"

\* the program is started again on the same input; the dictionary file is as the
\* first run left it
Rerun ==
  /\ pc = "done" /\ run = 1
  /\ run' = 2
  /\ prev' = [returned |-> returned, result |-> result]
  /\ translator' = IF engine = "custom" THEN "other" ELSE "none"
  /\ pc' = IF engine = "custom" THEN "load" ELSE "create"
  /\ dict' = EmptyMap /\ todo' = {} /\ result' = EmptyMap /\ returned' = "none"
  /\ pendingKeys' = <<>> /\ pendingTexts' = <<>> /\ keys' = <<>> /\ texts' = <<>>
  /\ results' = <<>> /\ idx' = 0
  /\ itemRes' = EmptyMap /\ omitted' = {} /\ sentTexts' = {} /\ requests' = 0
  /\ retried' = {} /\ failedKeys' = {} /\ failures' = 0 /\ chunks' = <<>>
  /\ reads' = 0 /\ writes' = 0 /\ callbacks' = 0
  /\ outputWritten' = FALSE
  /\ UNCHANGED <<inputVars, dictFile>>

NextIdem == Next \/ Rerun

SpecIdem == InitIdem /\ [][NextIdem]_vars

\* ----------------------------------------------------------------- claims
\* TranslateDataWithSimilarity has returned (to ProcessLanguageFile or to the caller)
Returned == pc \in {"write", "done"} /\ translator # "none"
\* translateBatch refuses to start: batch mode, an OpenAITranslator without an API
\* key, and at least one cache miss
BatchRefused ==
  batchSize > 1 /\ translator = "openai" /\ ~apiKey /\ Len(pendingTexts) > 0
Hits == {k \in DOMAIN data : data[k] \in DOMAIN dict0}

C2_OmittedRetried ==
  pc = "collect" =>
    /\ \A k \in omitted : data[k] \in retried
    /\ \A i \in 1..Len(pendingTexts) :
         \E j \in 1..Len(results) : results[j].Input = pendingTexts[i]

\* C5: a failed chunk request or single call marks the items of that request, and
\* no others, as failed with the error and the source text as output; the run is
\* never ended by it, and every chunk and item is still processed.
C5_FailureIsLocal ==
  /\ \A i \in 1..Len(results) :
       i <= Len(pendingKeys) =>
         IF pendingKeys[i] \in failedKeys
         THEN results[i] = BatchTranslationResult(pendingTexts[i], pendingTexts[i], FALSE,
                                                  "API request failed")
         ELSE results[i].Error # "API request failed"
  /\ \A k \in DOMAIN itemRes :
       IF k \in failedKeys
       THEN /\ ~itemRes[k].IsValid /\ itemRes[k].Output = data[k]
            /\ (translator = "other" \/ batchSize = 1) /\ k \in DOMAIN result
                 => result[k] = data[k]
       ELSE itemRes[k].Error # "API request failed"
  /\ failedKeys # {} /\ (apiKey \/ translator = "other") => returned # "error"
  /\ Returned /\ returned = "map" =>
       /\ DOMAIN result = DOMAIN data
       /\ (batchSize > 1 /\ translator = "openai" =>
             /\ Len(results) = Len(pendingKeys)
             /\ requests * batchSize >= Len(pendingKeys)
             /\ (requests - 1) * batchSize < Len(pendingKeys) \/ requests = 0)

C5_Witness ==
  /\ pc = "done" /\ returned = "map" /\ batchSize > 1 /\ translator = "openai"
  /\ Len(pendingKeys) = 3 /\ requests = 2
  /\ pendingKeys[1] \in failedKeys /\ pendingKeys[3] \notin failedKeys
  /\ results[3].IsValid /\ result[pendingKeys[3]] = results[3].Output

\* C6: with an unsupported engine or without API credentials the run stops before
\* any item is processed: no request is sent, no mapping is returned and no
\* output is written, whatever the batch size.  Stated for the runs in which every
\* item needs the translator: a non-empty input and nothing cached.
SetupError == engine = "deepl" \/ (engine = "openai" /\ ~apiKey)
C6_SetupErrorStopsRun ==
  SetupError /\ data # EmptyMap /\ dict0 = EmptyMap =>
    requests = 0 /\ returned # "map" /\ ~outputWritten

\* C7: a key whose text has an entry in the dictionary as loaded gets that cached
\* translation, and its text never goes out to the service.
C7_CacheHitsServed ==
  /\ \A t \in DOMAIN dict0 : t \notin sentTexts
  /\ \A k \in Hits : k \in DOMAIN result => result[k] = dict0[data[k]]
  /\ Returned /\ returned = "map" => Hits \subseteq DOMAIN result

C7_Witness ==
  /\ pc = "done" /\ returned = "map"
  /\ \E k \in Hits : result[k] = Cached
  /\ \E k \in DOMAIN itemRes : itemRes[k].IsValid /\ result[k] = itemRes[k].Output
  /\ sentTexts # {}

\* C8: at the end of a run the dictionary holds, for every cache-miss item whose
\* translation was valid, the output the returned mapping holds for the item's
\* key, and the run added no entry for an item whose translation was invalid.
\* Stated for the translator the program creates (an OpenAITranslator).
C8_DictionaryMatchesResult ==
  engine = "openai" /\ Returned /\ returned = "map" =>
    /\ \A k \in DOMAIN itemRes :
         itemRes[k].IsValid =>
           data[k] \in DOMAIN dict /\ dict[data[k]] = result[k]
    /\ \A t \in DOMAIN dict :
         t \notin DOMAIN dict0 =>
           \E k \in DOMAIN itemRes :
             itemRes[k].IsValid /\ data[k] = t /\ itemRes[k].Output = dict[t]

\* C9 as stated: the dictionary file is read once before any item is processed and
\* written once after the last one, with no write in between.
Running == pc \in {"partition", "chunk", "collect", "fallback", "single", "save"}
C9_OneReadOneWrite ==
  /\ pc \in {"create", "load"} => reads = 0 /\ writes = 0
  /\ Running => reads = 1 /\ writes = 0
  /\ Returned /\ returned = "map" => reads = 1 /\ writes = 1

\* C9, amended: the file is read once, before any item is processed.  SaveToFile
\* is called once when the run returns its mapping, and before that only by the
\* batch result callback: once after every chunk whose request did not fail, in
\* batch mode with an OpenAITranslator.  A run that translateBatch refuses to
\* start does not write.
C9_ReadOnceWritePerChunk ==
  /\ pc \in {"create", "load"} => reads = 0 /\ writes = 0
  /\ Running \/ Returned => reads = 1
  /\ writes = callbacks + (IF returned = "map" THEN 1 ELSE 0)
  /\ callbacks = (IF batchSize > 1 /\ translator = "openai" THEN requests - failures ELSE 0)
  /\ Returned /\ BatchRefused => writes = 0

\* C9 witness: a batch run of two chunk requests, one of them failed, has ended:
\* one read, one write after the chunk that succeeded, one write at the end
C9_Witness ==
  /\ pc = "done" /\ returned = "map" /\ reads = 1 /\ writes = 2
  /\ requests = 2 /\ failures = 1

\* C3: every result of a decoded chunk reply or of a failed chunk request that is
\* not valid has the source text as its Output
C3_InvalidPassesSourceThrough ==
  pc = "decoded" =>
    \A i \in 1..Len(results) : ~results[i].IsValid => results[i].Output = results[i].Input

\* C4: whatever the reply body is, decoding a chunk of N texts gives N results, and
\* the i-th result carries the i-th text of the chunk as its Input
C4_OneResultPerInput ==
  pc = "decoded" =>
    /\ Len(results) = Len(texts)
    /\ \A i \in 1..Len(texts) : results[i].Input = texts[i]

\* C4 witness: a body of one numbered line was decoded for a chunk of two texts;
\* the first got its translation and the second is reported missing
C4_Witness ==
  /\ pc = "decoded" /\ failures = 0
  /\ Len(texts) = 2 /\ keys # <<>>
  /\ dresp.kind = "text" /\ Len(dresp.lines) = 1
  /\ results[1].IsValid
  /\ results[2].Error = "Missing translation in response"

\* C10: the second run on the same input returns what the first run returned
C10_SecondRunReturnsTheSame ==
  run = 2 /\ pc = "done" => returned = prev.returned /\ result = prev.result

\* C10 witness: the second run of a batch run with the OpenAI translator has
\* ended; the first run translated three keys, two of them with the same text
C10_Witness ==
  /\ run = 2 /\ pc = "done" /\ returned = "map"
  /\ engine = "openai" /\ batchSize > 1 /\ dict0 = EmptyMap
  /\ Cardinality(DOMAIN data) = 3 /\ Cardinality(Range(data)) = 2
  /\ \E k \in DOMAIN data : result[k] = Tr(data[k])
  /\ \E k \in DOMAIN data : result[k] = data[k]
  /\ result = prev.result

\* ------------------------------------------------- translateBatch on its own
\* translateBatch is called with a list of texts, the keys of the texts or no
\* keys at all, and a batch size of one or more.
InitChunks ==
  /\ procs = NoProcs
  /\ engine = "openai" /\ apiKey = TRUE /\ translator = "openai"
  /\ stub = FreeService /\ dresp = NoResponse /\ NoCall /\ fileAtStart = "valid"
  /\ batchSize \in BatchSizes
  /\ dictFile = EmptyMap /\ dict0 = EmptyMap
  /\ run = 1 /\ prev = [returned |-> "none", result |-> EmptyMap]
  /\ InitCore
  /\ pc = "chunk"
  /\ \E n \in 0..MaxKeys :
       /\ pendingTexts \in [1..n -> Texts]
       /\ pendingKeys \in {<<>>, [i \in 1..n |-> KeyNames[i]]}
  /\ data = [k \in Range(pendingKeys) |->
               pendingTexts[CHOOSE i \in 1..Len(pendingKeys) : pendingKeys[i] = k]]
  /\ keys = pendingKeys /\ texts = pendingTexts

NextChunks == TranslateChunk \/ ValidateAndRetry

SpecChunks == InitChunks /\ [][NextChunks]_vars

RECURSIVE ChunkTexts(_)
\* the texts of a list of chunk requests, one after the other
ChunkTexts(cs) == IF cs = <<>> THEN <<>> ELSE Head(cs).texts \o ChunkTexts(Tail(cs))
RECURSIVE ChunkKeys(_)
ChunkKeys(cs) == IF cs = <<>> THEN <<>> ELSE Head(cs).keys \o ChunkKeys(Tail(cs))

\* C11: the chunk requests sent so far, followed by what is still to send, are the
\* pending texts and the pending keys in their order, cut at the same indices;
\* every chunk has at most batchSize items and every chunk but the last exactly
\* batchSize; when the loop has ended, ceil(n / batchSize) requests were sent
C11_ChunksPartitionPending ==
  /\ ChunkTexts(chunks) \o texts = pendingTexts
  /\ ChunkKeys(chunks) \o keys = pendingKeys
  /\ \A i \in 1..Len(chunks) :
       /\ Len(chunks[i].texts) \in 1..batchSize
       /\ pendingKeys # <<>> => Len(chunks[i].keys) = Len(chunks[i].texts)
       /\ (i < Len(chunks) \/ texts # <<>>) => Len(chunks[i].texts) = batchSize
  /\ requests = Len(chunks)
  /\ pc = "collect" =>
       /\ texts = <<>>
       /\ requests = (Len(pendingTexts) + batchSize - 1) \div batchSize

\* C11 witness: three keyed texts went out in chunks of two: a chunk of two, then
\* a chunk of one, and the loop has ended
C11_Witness ==
  /\ pc = "collect" /\ batchSize = 2
  /\ Len(pendingTexts) = 3 /\ pendingKeys # <<>>
  /\ Len(chunks) = 2 /\ Len(chunks[1].texts) = 2 /\ Len(chunks[2].keys) = 1

\* -------------------------------------------------- functions on their own
\* The state of a function called outside a run: no run is in progress.
runVars == <<engine, apiKey, stub, batchSize, data, dict0, dresp, fileAtStart, dictFile,
             translator, dict, todo, result, returned, batchVars, ghostVars, ioVars, outputWritten,
             run, prev, procs>>
NoRun ==
  /\ procs = NoProcs
  /\ engine = "custom" /\ apiKey = FALSE /\ translator = "none"
  /\ stub = FreeService /\ dresp = NoResponse /\ fileAtStart = "valid"
  /\ batchSize = 1
  /\ data = EmptyMap /\ dictFile = EmptyMap /\ dict0 = EmptyMap
  /\ run = 1 /\ prev = [returned |-> "none", result |-> EmptyMap]
  /\ InitRun

\* ------------------------------------------------------------- similarity
\* A Go string is a sequence of bytes.  The strings here are the UTF-8 encodings
\* of texts over three characters, one of which takes two bytes.
MaxRunes == 3
Chars == {"x", "y", "eacute"}
EncodeRune(c) == IF c = "eacute" THEN <<"C3", "A9">> ELSE <<c>>
RECURSIVE EncodeString(_)
EncodeString(rs) ==
  IF rs = <<>> THEN <<>> ELSE EncodeRune(Head(rs)) \o EncodeString(Tail(rs))

RECURSIVE Runes(_)
\* []rune(s): the characters of s; a byte that starts no valid encoding becomes
\* one RuneError character
Runes(s) ==
  IF s = <<>> THEN <<>>
  ELSE IF Head(s) = "C3" /\ Len(s) >= 2 /\ s[2] = "A9"
       THEN <<"eacute">> \o Runes(SubSeq(s, 3, Len(s)))
       ELSE IF Head(s) \in {"C3", "A9"} THEN <<"RuneError">> \o Runes(Tail(s))
            ELSE <<Head(s)>> \o Runes(Tail(s))

\* utf8.RuneCountInString
RuneCountInString(s) == Len(Runes(s))

\* a minimum that leaves the substitution out
minOfTwo(a, b, c) == IF a < b THEN a ELSE b
min(a, b, c) == IF a < b THEN (IF a < c THEN a ELSE c) ELSE (IF b < c THEN b ELSE c)

\* the matrix of levenshteinDistance, filled row by row
levenshteinDistance(s1, s2) ==
  LET len1 == RuneCountInString(s1)
      len2 == RuneCountInString(s2)
      runes1 == Runes(s1)
      runes2 == Runes(s2)
      \* a row holds matrix[i][0..len2] at the indices 1..len2+1
      RECURSIVE RowUpTo(_, _, _)
      RowUpTo(above, i, j) ==
        IF j = 0 THEN <<i>>
        ELSE LET left == RowUpTo(above, i, j - 1)
                 cost == IF runes1[i] = runes2[j] THEN 0 ELSE 1
             IN Append(left, min(above[j + 1] + 1, left[j] + 1, above[j] + cost))
      RECURSIVE Row(_)
      Row(i) == IF i = 0 THEN [j \in 1..(len2 + 1) |-> j - 1]
                ELSE RowUpTo(Row(i - 1), i, len2)
  IN IF len1 = 0 THEN len2
     ELSE IF len2 = 0 THEN len1
     ELSE Row(len1)[len2 + 1]

Max(a, b) == IF a > b THEN a ELSE b

\* a float64 score 1.0 - distance/maxLen as the fraction (maxLen - distance)/maxLen
calculateSimilarity(s1, s2) ==
  LET maxLen == Max(RuneCountInString(s1), RuneCountInString(s2))
  IN IF maxLen = 0 THEN [num |-> 1, den |-> 1]
     ELSE [num |-> maxLen - levenshteinDistance(s1, s2), den |-> maxLen]

\* comparison of two scores
ScoreLeq(x, y) == x.num * y.den <= y.num * x.den
ScoreEq(x, y) == x.num * y.den = y.num * x.den

SimStrings == {EncodeString(rs) : rs \in SeqsUpTo(Chars, MaxRunes)}

InitSimilarity ==
  /\ NoRun
  /\ pc = "call"
  /\ call \in [s1 : SimStrings, s2 : SimStrings]
  /\ ret = <<>>

CalculateSimilarity ==
  /\ pc = "call"
  /\ ret' = calculateSimilarity(call.s1, call.s2)
  /\ pc' = "return"
  /\ UNCHANGED <<runVars, call>>

SpecSimilarity == InitSimilarity /\ [][CalculateSimilarity]_vars

RECURSIVE EditDistance(_, _)
\* the edit distance of two texts: the least number of insertions, deletions and
\* substitutions of one character that turn one into the other
EditDistance(a, b) ==
  IF a = <<>> THEN Len(b)
  ELSE IF b = <<>> THEN Len(a)
  ELSE IF Head(a) = Head(b) THEN EditDistance(Tail(a), Tail(b))
  ELSE 1 + Min(EditDistance(Tail(a), Tail(b)),
               Min(EditDistance(Tail(a), b), EditDistance(a, Tail(b))))

\* C20: the score is 1 - d/max(|a|, |b|) with d the edit distance over characters,
\* and 1 when both texts are empty; it lies in [0, 1], is the same for (b, a), is
\* 1 exactly when a = b, and is 0 when exactly one of the texts is empty
C20_SimilarityIsNormalisedEditDistance ==
  pc = "return" =>
    LET a == Runes(call.s1)
        b == Runes(call.s2)
        longer == Max(Len(a), Len(b))
    IN /\ IF longer = 0 THEN ScoreEq(ret, [num |-> 1, den |-> 1])
          ELSE ScoreEq(ret, [num |-> longer - EditDistance(a, b), den |-> longer])
       /\ ret.den > 0 /\ 0 <= ret.num /\ ret.num <= ret.den
       /\ ScoreEq(ret, calculateSimilarity(call.s2, call.s1))
       /\ ret.num = ret.den <=> call.s1 = call.s2
       /\ (call.s1 = <<>>) # (call.s2 = <<>>) => ret.num = 0

\* C20 witness: two texts of three characters that differ in one character, which
\* takes two bytes in one of them, score 2/3
C20_Witness ==
  /\ pc = "return"
  /\ Runes(call.s1) = <<"x", "eacute", "y">> /\ Runes(call.s2) = <<"x", "y", "y">>
  /\ Len(call.s1) = 4
  /\ ret = [num |-> 2, den |-> 3]

\* ---------------------------------------------------- FindSimilarExamples
\* td.Terms: language -> (original -> translation)
MaxResults == 2
Languages == {"ja", "ko"}
DictOriginals == {EncodeString(rs) : rs \in {<<"x">>, <<"x", "y">>, <<"eacute", "y">>}}
QueryTexts == {EncodeString(rs) : rs \in {<<>>, <<"x">>, <<"x", "y">>, <<"y", "x">>}}
Thresholds == {[num |-> 0, den |-> 1], [num |-> 1, den |-> 2], [num |-> 1, den |-> 1],
               [num |-> 3, den |-> 2]}
\* what a language's entry of an original holds
TranslationIn(lang, original) == <<lang>> \o original
TermsOf ==
  UNION {[ls -> UNION {[os -> {<<>>}] : os \in SUBSET DictOriginals}] : ls \in SUBSET Languages}
AllTerms ==
  {[l \in DOMAIN t |-> [o \in DOMAIN t[l] |-> TranslationIn(l, o)]] : t \in TermsOf}

SimilarityMatch(original, translation, lang, similarity) ==
  [Original |-> original, Translation |-> translation, Language |-> lang,
   Similarity |-> similarity]

RECURSIVE MatchesOf(_, _, _, _, _)
\* the range loop over langTerms in the given order: the entries that reach the
\* threshold
MatchesOf(langTerms, order, text, targetLang, threshold) ==
  IF order = <<>> THEN <<>>
  ELSE LET original == Head(order)
           similarity == calculateSimilarity(text, original)
           rest == MatchesOf(langTerms, Tail(order), text, targetLang, threshold)
       IN IF ScoreLeq(threshold, similarity)
          THEN <<SimilarityMatch(original, langTerms[original], targetLang, similarity)>>
               \o rest
          ELSE rest

\* a slice left in the order of the range loop
SortSliceSkipped(matches) == matches

RECURSIVE SortSlice(_)
\* sort.Slice with less(i, j) = matches[i].Similarity > matches[j].Similarity, as
\* the insertion sort it runs on a short slice; the order of equal scores is that
\* of the range loop, which is any order
SortSlice(matches) ==
  IF matches = <<>> THEN <<>>
  ELSE LET m == matches[Len(matches)]
           sorted == SortSlice(SubSeq(matches, 1, Len(matches) - 1))
           before == {i \in 1..Len(sorted) : ScoreLeq(m.Similarity, sorted[i].Similarity)}
           n == Cardinality(before)
       IN SubSeq(sorted, 1, n) \o <<m>> \o SubSeq(sorted, n + 1, Len(sorted))

FindSimilarExamples(terms, order, text, targetLang, threshold, maxResults) ==
  LET matches == IF targetLang \in DOMAIN terms
                 THEN SortSlice(MatchesOf(terms[targetLang], order, text, targetLang,
                                          threshold))
                 ELSE <<>>
  IN IF Len(matches) > maxResults THEN SubSeq(matches, 1, maxResults) ELSE matches

InitFindSimilar ==
  /\ NoRun
  /\ pc = "call"
  /\ call \in [terms : AllTerms, text : QueryTexts, targetLang : Languages,
               threshold : Thresholds, maxResults : 0..MaxResults]
  /\ ret = <<>>

FindSimilar ==
  /\ pc = "call"
  /\ \E order \in Perms(IF call.targetLang \in DOMAIN call.terms
                        THEN DOMAIN call.terms[call.targetLang] ELSE {}) :
       ret' = FindSimilarExamples(call.terms, order, call.text, call.targetLang,
                                  call.threshold, call.maxResults)
  /\ pc' = "return"
  /\ UNCHANGED <<runVars, call>>

SpecFindSimilar == InitFindSimilar /\ [][FindSimilar]_vars

\* the entries of the language asked for
LangTerms == IF call.targetLang \in DOMAIN call.terms THEN call.terms[call.targetLang]
             ELSE EmptyMap

\* C19: at most maxResults matches come back, each an entry of the language asked
\* for with its score, which reaches the threshold; the scores do not increase
\* along the list; no entry of that language that was left out scores strictly
\* higher than a returned one
C19_BestMatchesInOrder ==
  pc = "return" =>
    /\ Len(ret) <= call.maxResults
    /\ \A i \in 1..Len(ret) :
         /\ ret[i].Language = call.targetLang
         /\ ret[i].Original \in DOMAIN LangTerms
         /\ ret[i].Translation = LangTerms[ret[i].Original]
         /\ ret[i].Similarity = calculateSimilarity(call.text, ret[i].Original)
         /\ ScoreLeq(call.threshold, ret[i].Similarity)
    /\ \A i \in 1..Len(ret) : \A j \in 1..Len(ret) :
         i < j => ret[i].Original # ret[j].Original
                  /\ ScoreLeq(ret[j].Similarity, ret[i].Similarity)
    /\ \A o \in DOMAIN LangTerms :
         (\A i \in 1..Len(ret) : ret[i].Original # o) =>
           \A i \in 1..Len(ret) :
             ScoreLeq(calculateSimilarity(call.text, o), ret[i].Similarity)

\* C19 witness: of three entries that reach the threshold the best two came back,
\* the better one first; the other language has entries as well
C19_Witness ==
  /\ pc = "return"
  /\ call.maxResults = 2 /\ Len(ret) = 2
  /\ Cardinality(DOMAIN LangTerms) = 3
  /\ call.threshold = [num |-> 0, den |-> 1]
  /\ ~ScoreLeq(ret[1].Similarity, ret[2].Similarity)
  /\ \E l \in DOMAIN call.terms : l # call.targetLang /\ call.terms[l] # EmptyMap

\* ------------------------------------------------ the dictionary file at start
\* A run that finds dictionary.json in any state.
InitLoad ==
  /\ InitInputs /\ InitRun /\ stub = FreeService /\ dresp = NoResponse /\ NoCall
  /\ fileAtStart \in FileKinds
  /\ fileAtStart \in {"missing", "unreadable", "malformed", "nullTerms"} => dictFile = EmptyMap

\* one iteration of a translation loop in which AddTerm panics: the batch result
\* callback with a valid result, or a single-item call that succeeded
AddTermPanics ==
  /\ TermsNil
  /\ \/ /\ pc = "chunk" /\ Len(texts) > 0
        /\ LET currentBatchSize == Min(batchSize, Len(texts))
               textBatch == SubSeq(texts, 1, currentBatchSize)
               keyBatch == IF keys # <<>> THEN SubSeq(keys, 1, currentBatchSize) ELSE <<>>
           IN \E reply \in ChunkReplies(keyBatch, textBatch) :
                /\ ~reply.fail
                /\ \E i \in 1..currentBatchSize :
                     ChunkResults(keyBatch, textBatch, reply)[i].IsValid
                /\ sentTexts' = sentTexts \cup Range(textBatch)
     \/ /\ pc = "fallback"
        /\ \E o \in Translate(pendingTexts[idx + 1]) : ~o.err
        /\ sentTexts' = sentTexts \cup {pendingTexts[idx + 1]}
     \/ /\ pc = "single"
        /\ \E key \in todo :
             /\ \E o \in Translate(data[key]) : ~o.err
             /\ sentTexts' = sentTexts \cup {data[key]}
  /\ requests' = requests + 1
  /\ pc' = "panic"
  /\ UNCHANGED <<inputVars, dictFile, translator, dict, todo, result, returned, batchVars,
                 itemRes, omitted, retried, failedKeys, failures, chunks, ioVars,
                 outputWritten, run, prev>>

NextLoad == Next \/ AddTermPanics

SpecLoad == InitLoad /\ [][NextLoad]_vars

\* C18: whatever the dictionary file is at the start, the run does not crash, and
\* when it has ended it has returned the mapping with every key of the input
\* (but for the batch run that is refused for its missing API key)
C18_LoadNeverAbortsRun ==
  /\ pc # "panic"
  /\ pc = "done" /\ translator # "none" /\ ~BatchRefused =>
       returned = "map" /\ DOMAIN result = DOMAIN data

\* ------------------------------------------------------- quest documents
\* A JSON value as encoding/json decodes it into interface{}: a string (its
\* characters), a number, or a map from keys to values.  A key is its name, and
\* for an NBT-tagged key the colon and the characters of the tag after it.
JString(s) == [str |-> s]
JNumber(n) == [num |-> n]
JMap(m) == [map |-> m]
IsString(v) == DOMAIN v = {"str"}
IsMap(v) == DOMAIN v = {"map"}
PlainKey(name) == <<name>>
TaggedKey(name, tag) == <<name, ":">> \o tag
DigitChars == {"0", "1", "2", "3", "4", "5", "6", "7", "8", "9"}
\* regexp.MatchString(`^<name>:\d+$`, key)
MatchTagged(key, name) ==
  /\ Len(key) >= 3 /\ key[1] = name /\ key[2] = ":"
  /\ \A i \in 3..Len(key) : key[i] \in DigitChars

\* ------------------------------------------------------- QuestProperties
\* GetBetterQuestingData: the keys it may read the section from.  The plain key
\* is taken when it holds a map; otherwise the range loop over the bag returns
\* at the first tagged key that holds a map, whichever comes first.
GetBetterQuestingKeys(qp) ==
  IF PlainKey("betterquesting") \in DOMAIN qp /\ IsMap(qp[PlainKey("betterquesting")])
  THEN {PlainKey("betterquesting")}
  ELSE {k \in DOMAIN qp : MatchTagged(k, "betterquesting") /\ IsMap(qp[k])}

\* SetBetterQuestingData: the keys it may write the section to.  The plain key is
\* taken when it exists, whatever it holds; otherwise the first tagged key of the
\* range loop, whatever it holds; otherwise the plain key is added.
SetBetterQuestingKeys(qp) ==
  IF PlainKey("betterquesting") \in DOMAIN qp
  THEN {PlainKey("betterquesting")}
  ELSE IF \E k \in DOMAIN qp : MatchTagged(k, "betterquesting")
       THEN {k \in DOMAIN qp : MatchTagged(k, "betterquesting")}
       ELSE {PlainKey("betterquesting")}

\* the bag after bqData was read from readKey, changed in place to section, and
\* written to writeKey
SetBetterQuestingData(qp, readKey, writeKey, section) ==
  [k \in DOMAIN qp \cup {writeKey} |->
     IF k \in {readKey, writeKey} THEN section ELSE qp[k]]

\* properties bags: up to four keys, each holding one of two sections or a string
SectionA == JMap([k \in {PlainKey("name")} |-> JString(<<"A">>)])
SectionB == JMap([k \in {TaggedKey("name", <<"8">>)} |-> JString(<<"B">>)])
BagKeys == {PlainKey("betterquesting"), TaggedKey("betterquesting", <<"1", "0">>),
            TaggedKey("betterquesting", <<"1", "1">>), TaggedKey("betterquesting", <<"x">>)}
Bags ==
  UNION {[ks -> {SectionA, SectionB, JString(<<"s">>)}] : ks \in SUBSET BagKeys}

InitProperties ==
  /\ NoRun
  /\ pc = "call"
  /\ call \in [qp : Bags]
  /\ ret = <<>>

\* bqData := Properties.GetBetterQuestingData(); if bqData != nil
\* { Properties.SetBetterQuestingData(bqData) }, the section written as read
GetThenSet ==
  /\ pc = "call"
  /\ \/ /\ GetBetterQuestingKeys(call.qp) = {}
        /\ ret' = [qp |-> call.qp, read |-> <<>>, written |-> <<>>]
     \/ \E r \in GetBetterQuestingKeys(call.qp) :
          \E w \in SetBetterQuestingKeys(call.qp) :
            ret' = [qp |-> SetBetterQuestingData(call.qp, r, w, call.qp[r]),
                    read |-> r, written |-> w]
  /\ pc' = "return"
  /\ UNCHANGED <<runVars, call>>

SpecProperties == InitProperties /\ [][GetThenSet]_vars

\* C14: SetBetterQuestingData writes under the key GetBetterQuestingData read the
\* section from, so the bag after Set(Get()) is the bag before it: same keys, and
\* no other key's value changed.
C14_SetWritesWhereGetRead ==
  pc = "return" /\ ret.read # <<>> =>
    /\ ret.written = ret.read
    /\ DOMAIN ret.qp = DOMAIN call.qp
    /\ \A k \in DOMAIN call.qp \ {ret.read} : ret.qp[k] = call.qp[k]

\* ------------------------------------------------------- NBT-tagged documents
\* the keys a range loop with `^<name>:\d+$` and a map type assertion may stop at
TaggedMapKeys(m, name) == {k \in DOMAIN m : MatchTagged(k, name) /\ IsMap(m[k])}

\* fmt.Sprintf("quest.%s.name", questID)
QuestKey(questID, field) == <<"quest", questID, field>>
\* fmt.Sprintf("questline.%s.name", lineID)
QuestLineKey(lineID, field) == <<"questline", lineID, field>>
\* fmt.Sprintf("quest.%s.reward.%s.command", questID, rewardID)
RewardKey(questID, rewardID, field) == <<"quest", questID, "reward", rewardID, field>>

\* the functions that take one value of F[x] at every x
Choices(F) == {f \in [DOMAIN F -> UNION {F[x] : x \in DOMAIN F}] : \A x \in DOMAIN F : f[x] \in F[x]}

\* bqSection["name:8"] = translated
PutField(m, k, v) == Put(m, k, v)

\* the section after the two assignments of ApplyNBTBetterQuestingTranslations
ApplyNBTSection(questID, section, translations) ==
  LET named == IF QuestKey(questID, "name") \in DOMAIN translations
               THEN PutField(section, TaggedKey("name", <<"8">>),
                             JString(translations[QuestKey(questID, "name")]))
               ELSE section
  IN IF QuestKey(questID, "description") \in DOMAIN translations
     THEN PutField(named, TaggedKey("desc", <<"8">>),
                   JString(translations[QuestKey(questID, "description")]))
     ELSE named

\* one quest of the database after the apply: the properties and the section are
\* the first tagged keys holding a map that the range loops meet
ApplyNBTQuest(questID, questData, translations) ==
  IF ~IsMap(questData) \/ TaggedMapKeys(questData.map, "properties") = {}
  THEN {questData}
  ELSE UNION {
         LET properties == questData.map[pk].map
         IN IF TaggedMapKeys(properties, "betterquesting") = {}
            THEN {questData}
            ELSE {JMap(Put(questData.map, pk,
                     JMap(Put(properties, bk,
                       JMap(ApplyNBTSection(questID, properties[bk].map, translations))))))
                  : bk \in TaggedMapKeys(properties, "betterquesting")}
         : pk \in TaggedMapKeys(questData.map, "properties")}

\* ApplyNBTBetterQuestingTranslations: the documents it may write for the
\* document read from the file.  Numbers of the documents are within the range in
\* which the float64 of the decoded document is exact.
ApplyNBTBetterQuestingTranslations(rawData, translations) ==
  IF TaggedMapKeys(rawData, "questDatabase") = {}
  THEN {rawData}
  ELSE UNION {
         {Put(rawData, qk, JMap(db))
          : db \in Choices([q \in DOMAIN rawData[qk].map |->
                              ApplyNBTQuest(q, rawData[qk].map[q], translations)])}
         : qk \in TaggedMapKeys(rawData, "questDatabase")}

TextFindOre == <<"F", "i", "n", "d", " ", "o", "r", "e">>
TextDig == <<"D", "i", "g">>
TextTranslated == <<"T">>

Key0 == TaggedKey("0", <<"1", "0">>)
Key1 == TaggedKey("1", <<"1", "0">>)
NameTag == TaggedKey("name", <<"8">>)
DescTag == TaggedKey("desc", <<"8">>)

\* sections of an NBT-tagged quest: name:8 and desc:8 present or not, beside a flag
NBTSections ==
  {JMap(f) : f \in UNION {[ks \cup {TaggedKey("isMain", <<"1">>)} ->
                             {JString(TextFindOre), JNumber(0)}]
                          : ks \in SUBSET {NameTag, DescTag}}}

\* a quest with its section under betterquesting:10, and possibly a second
\* section under betterquesting:11
NBTQuest(id, section, second) ==
  JMap([k \in {TaggedKey("questID", <<"3">>), TaggedKey("properties", <<"1", "0">>)} |->
     IF k = TaggedKey("questID", <<"3">>) THEN JNumber(id)
     ELSE JMap([b \in {TaggedKey("betterquesting", <<"1", "0">>)} \cup
                     (IF second THEN {TaggedKey("betterquesting", <<"1", "1">>)} ELSE {}) |->
                  IF b = TaggedKey("betterquesting", <<"1", "0">>) THEN section
                  ELSE JMap([n \in {NameTag} |-> JString(TextDig)])])])

\* an NBT-tagged document of one quest
NBTDocument(section, second) ==
  [k \in {TaggedKey("format", <<"8">>), TaggedKey("questDatabase", <<"9">>)} |->
     IF k = TaggedKey("format", <<"8">>) THEN JString(<<"2">>)
     ELSE JMap([q \in {Key0} |-> NBTQuest(0, section, second)])]

NBTDocuments == {NBTDocument(sec, second) : sec \in NBTSections, second \in BOOLEAN}

\* translations mappings: any of the keys of quest 0 and of a quest not there
ApplyMappings ==
  UNION {[ks -> {TextTranslated}]
         : ks \in SUBSET {QuestKey(Key0, "name"), QuestKey(Key0, "description"),
                          QuestKey(Key1, "name")}}

InitApplyNBT ==
  /\ NoRun
  /\ pc = "call"
  /\ call \in [rawData : NBTDocuments, translations : ApplyMappings]
  /\ ret = <<>>

ApplyNBT ==
  /\ pc = "call"
  /\ \E out \in ApplyNBTBetterQuestingTranslations(call.rawData, call.translations) :
       ret' = [rawData |-> out]
  /\ pc' = "return"
  /\ UNCHANGED <<runVars, call>>

SpecApplyNBT == InitApplyNBT /\ [][ApplyNBT]_vars

\* the place path of a document is the name:8 or desc:8 field of the section of
\* a quest whose synthetic key is in the mapping
TranslatedPlace(path, translations) ==
  /\ Len(path) = 5
  /\ MatchTagged(path[1], "questDatabase")
  /\ MatchTagged(path[3], "properties")
  /\ MatchTagged(path[4], "betterquesting")
  /\ \/ path[5] = NameTag /\ QuestKey(path[2], "name") \in DOMAIN translations
     \/ path[5] = DescTag /\ QuestKey(path[2], "description") \in DOMAIN translations

RECURSIVE SameExcept(_, _, _, _)
\* values a and b at path have the same keys all the way down, and the same
\* values except at the translated places
SameExcept(a, b, path, translations) ==
  IF IsMap(a) /\ IsMap(b)
  THEN /\ DOMAIN a.map = DOMAIN b.map
       /\ \A k \in DOMAIN a.map :
            SameExcept(a.map[k], b.map[k], Append(path, k), translations)
  ELSE a = b \/ TranslatedPlace(path, translations)

\* C12: ApplyNBTBetterQuestingTranslations changes only the value of an existing
\* name:8 or desc:8 field of a quest whose synthetic key is in the mapping; every
\* other key and value is unchanged and no key is added or removed.
C12_ApplyChangesOnlyExistingFields ==
  pc = "return" =>
    SameExcept(JMap(call.rawData), JMap(ret.rawData), <<>>, call.translations)

\* ------------------------------------------------------- admissible texts
LowerChars == {"a", "b", "c", "d", "e", "f", "g", "h", "i", "j", "k", "l", "m", "n", "o", "p", "q", "r", "s", "t", "u", "v", "w", "x", "y", "z"}
UpperChars == {"A", "B", "C", "D", "E", "F", "G", "H", "I", "J", "K", "L", "M", "N", "O", "P", "Q", "R", "S", "T", "U", "V", "W", "X", "Y", "Z"}
HexLowerChars == {"a", "b", "c", "d", "e", "f"}
HexUpperChars == {"A", "B", "C", "D", "E", "F"}
AllIn(s, class) == \A i \in 1..Len(s) : s[i] \in class
\* 1-based positions of the character c in s
Positions(s, c) == {i \in 1..Len(s) : s[i] = c}

\* `^[a-z_]+:[a-z_]+$`
MatchResourceID(s) ==
  \E i \in 2..(Len(s) - 1) :
    /\ s[i] = ":"
    /\ AllIn(SubSeq(s, 1, i - 1), LowerChars \cup {"_"})
    /\ AllIn(SubSeq(s, i + 1, Len(s)), LowerChars \cup {"_"})
\* `^[A-Z_][A-Z_0-9]*$`
MatchConstant(s) ==
  /\ s # <<>> /\ s[1] \in UpperChars \cup {"_"}
  /\ AllIn(s, UpperChars \cup DigitChars \cup {"_"})
\* `^[a-z]+\.[a-z.]+$`
MatchTranslationKey(s) ==
  \E i \in 2..(Len(s) - 1) :
    /\ s[i] = "."
    /\ AllIn(SubSeq(s, 1, i - 1), LowerChars)
    /\ AllIn(SubSeq(s, i + 1, Len(s)), LowerChars \cup {"."})
\* `^(true|false)$`
MatchBoolean(s) == s \in {<<"t", "r", "u", "e">>, <<"f", "a", "l", "s", "e">>}
\* `^\d+$`
MatchNumber(s) == s # <<>> /\ AllIn(s, DigitChars)
\* `^[a-f0-9\-]{36}$`
MatchUUID(s) == Len(s) = 36 /\ AllIn(s, HexLowerChars \cup DigitChars \cup {"-"})
\* `^#[a-fA-F0-9]{6,8}$`
MatchColor(s) ==
  /\ Len(s) \in 7..9 /\ s[1] = "#"
  /\ AllIn(Tail(s), HexLowerChars \cup HexUpperChars \cup DigitChars)

isTranslatableText(text) ==
  /\ text # <<>>
  /\ LET t == TrimSpace(text)
     IN ~ \/ MatchResourceID(t)
          \/ MatchConstant(t)
          \/ MatchTranslationKey(t)
          \/ MatchBoolean(t)
          \/ MatchNumber(t)
          \/ MatchUUID(t)
          \/ MatchColor(t)

\* `/say\s+.+` anywhere in cmd: the word, white space, and one more character
MatchCommand(cmd, word) ==
  \E i \in 1..Len(cmd) :
    /\ Len(cmd) >= i + Len(word) + 1
    /\ SubSeq(cmd, i, i + Len(word) - 1) = word
    /\ cmd[i + Len(word)] = " "

isPlayerMessage(cmd) ==
  /\ cmd # <<>>
  /\ \/ MatchCommand(cmd, <<"/", "s", "a", "y">>)
     \/ MatchCommand(cmd, <<"/", "t", "e", "l", "l">>)
     \/ MatchCommand(cmd, <<"/", "t", "i", "t", "l", "e">>)

TextEmpty == <<>>
TextResourceID == <<"m", "i", "n", "e", "c", "r", "a", "f", "t", ":", "s", "t", "o", "n", "e">>
TextConstant == <<"A", "L", "W", "A", "Y", "S">>
TextTranslationKey == <<"b", "q", ".", "r", "e", "w", "a", "r", "d", ".", "c", "o", "m", "m", "a", "n", "d">>
TextStandardKey == <<"b", "q", "_", "s", "t", "a", "n", "d", "a", "r", "d", ".", "r", "e", "w", "a", "r", "d", ".", "c", "o", "m", "m", "a", "n", "d">>
TextBoolean == <<"t", "r", "u", "e">>
TextNumber == <<"4", "2">>
TextPaddedNumber == <<" ", "4", "2", " ">>
TextUUID == <<"1", "2", "3", "e", "4", "5", "6", "7", "-", "e", "8", "9", "b", "-", "1", "2", "d", "3", "-", "a", "4", "5", "6", "-", "4", "2", "6", "6", "1", "4", "1", "7", "4", "0", "0", "0">>
TextColor == <<"#", "f", "f", "0", "0", "a", "a">>
TextSay == <<"/", "s", "a", "y", " ", "W", "e", "l", "l", " ", "d", "o", "n", "e">>
TextGive == <<"/", "g", "i", "v", "e", " ", "@", "p", " ", "s", "t", "o", "n", "e">>

\* texts a name, a description or a command of a document may hold
FieldTexts ==
  {TextFindOre, TextEmpty, TextResourceID, TextConstant, TextTranslationKey,
   TextStandardKey, TextBoolean, TextNumber, TextPaddedNumber, TextUUID, TextColor}
CommandTexts == {TextSay, TextGive}

\* ------------------------------------------------------- standard documents
\* json.Unmarshal into BetterQuestingFile: a field takes the value of the key of
\* its name when the value has the field's type, keeps its zero value when the key
\* is absent, and a value of another type is an error; keys that name no field
\* are skipped.  Of the fields of Quest the model keeps questID, name, rewards and
\* properties; the scalar fields left out decode and encode as questID and name.
Nil == [nil |-> TRUE]
Has(m, name) == PlainKey(name) \in DOMAIN m
At(m, name) == m[PlainKey(name)]
FieldTyped(m, name, kind) == Has(m, name) => DOMAIN At(m, name) = {kind}
StringField(m, name) == IF Has(m, name) THEN At(m, name).str ELSE <<>>
NumberField(m, name) == IF Has(m, name) THEN At(m, name).num ELSE 0
MapField(m, name) == IF Has(m, name) THEN At(m, name).map ELSE EmptyMap

RewardTyped(v) ==
  IsMap(v) /\ FieldTyped(v.map, "rewardID", "str") /\ FieldTyped(v.map, "index", "num")
QuestTyped(v) ==
  /\ IsMap(v)
  /\ FieldTyped(v.map, "questID", "num") /\ FieldTyped(v.map, "name", "str")
  /\ FieldTyped(v.map, "properties", "map") /\ FieldTyped(v.map, "rewards", "map")
  /\ \A r \in DOMAIN MapField(v.map, "rewards") : RewardTyped(MapField(v.map, "rewards")[r])
QuestLineTyped(v) ==
  /\ IsMap(v)
  /\ FieldTyped(v.map, "lineID", "num") /\ FieldTyped(v.map, "name", "str")
  /\ FieldTyped(v.map, "description", "str")
FileTyped(doc) ==
  /\ FieldTyped(doc, "format", "str")
  /\ FieldTyped(doc, "questDatabase", "map") /\ FieldTyped(doc, "questLines", "map")
  /\ \A q \in DOMAIN MapField(doc, "questDatabase") : QuestTyped(MapField(doc, "questDatabase")[q])
  /\ \A l \in DOMAIN MapField(doc, "questLines") : QuestLineTyped(MapField(doc, "questLines")[l])

DecodeReward(v) ==
  [RewardID |-> StringField(v.map, "rewardID"), Index |-> NumberField(v.map, "index")]
DecodeQuest(v) ==
  [QuestID |-> NumberField(v.map, "questID"),
   Name |-> StringField(v.map, "name"),
   Rewards |-> [r \in DOMAIN MapField(v.map, "rewards") |->
                  DecodeReward(MapField(v.map, "rewards")[r])],
   Properties |-> IF Has(v.map, "properties") THEN At(v.map, "properties") ELSE Nil]
DecodeQuestLine(v) ==
  [LineID |-> NumberField(v.map, "lineID"),
   Name |-> StringField(v.map, "name"),
   Description |-> StringField(v.map, "description")]

\* ParseBetterQuestingFile: the decoded file, or the error of a value of the
\* wrong type
ParseBetterQuestingFile(doc) ==
  IF ~FileTyped(doc) THEN [err |-> TRUE]
  ELSE [err |-> FALSE,
        Format |-> StringField(doc, "format"),
        QuestDatabase |-> [q \in DOMAIN MapField(doc, "questDatabase") |->
                             DecodeQuest(MapField(doc, "questDatabase")[q])],
        QuestLines |-> [l \in DOMAIN MapField(doc, "questLines") |->
                          DecodeQuestLine(MapField(doc, "questLines")[l])]]

\* the map of the pairs <<key name, value>> of ps
Object(ps) == [k \in {PlainKey(x[1]) : x \in ps} |-> (CHOOSE x \in ps : PlainKey(x[1]) = k)[2]]

EncodeReward(reward) ==
  JMap(Object({<<"rewardID", JString(reward.RewardID)>>, <<"index", JNumber(reward.Index)>>}))
\* rewards is omitempty, left out when the map is empty; properties is left out
\* when the pointer is nil
EncodeQuest(quest) ==
  JMap(Object({<<"questID", JNumber(quest.QuestID)>>, <<"name", JString(quest.Name)>>}
         \cup (IF DOMAIN quest.Rewards = {} THEN {}
               ELSE {<<"rewards", JMap([r \in DOMAIN quest.Rewards |->
                                          EncodeReward(quest.Rewards[r])])>>})
         \cup (IF quest.Properties = Nil THEN {} ELSE {<<"properties", quest.Properties>>})))
EncodeQuestLine(line) ==
  JMap(Object({<<"lineID", JNumber(line.LineID)>>, <<"name", JString(line.Name)>>,
               <<"description", JString(line.Description)>>}))

\* WriteBetterQuestingFile: json.MarshalIndent of the decoded file
WriteBetterQuestingFile(bqFile) ==
  Object({<<"format", JString(bqFile.Format)>>}
    \cup (IF DOMAIN bqFile.QuestDatabase = {} THEN {}
          ELSE {<<"questDatabase", JMap([q \in DOMAIN bqFile.QuestDatabase |->
                                           EncodeQuest(bqFile.QuestDatabase[q])])>>})
    \cup (IF DOMAIN bqFile.QuestLines = {} THEN {}
          ELSE {<<"questLines", JMap([l \in DOMAIN bqFile.QuestLines |->
                                        EncodeQuestLine(bqFile.QuestLines[l])])>>}))

\* ------------------------------------------------------- extraction
\* the string under key k of m, empty when the key is absent or holds no string
StringAt(m, k) == IF k \in DOMAIN m /\ IsString(m[k]) THEN m[k].str ELSE <<>>

\* the one-entry mapping key -> text when text is non-empty and admissible, else
\* the empty mapping
TextEntry(text, key, admissible) ==
  IF text # <<>> /\ admissible THEN [x \in {key} |-> text] ELSE EmptyMap

\* b's entries over a's: the later assignment to a key of translations wins
Over(a, b) == [k \in DOMAIN a \cup DOMAIN b |-> IF k \in DOMAIN b THEN b[k] ELSE a[k]]

\* the union of the mappings c[x], whose key sets are disjoint
MergeAll(c) ==
  [k \in UNION {DOMAIN c[x] : x \in DOMAIN c} |-> c[CHOOSE x \in DOMAIN c : k \in DOMAIN c[x]][k]]

\* the entries of a section: name and desc, then name:8 and desc:8 over them
SectionEntries(questID, bqData) ==
  Over(Over(TextEntry(StringAt(bqData, PlainKey("name")), QuestKey(questID, "name"),
                      isTranslatableText(StringAt(bqData, PlainKey("name")))),
            TextEntry(StringAt(bqData, PlainKey("desc")), QuestKey(questID, "description"),
                      isTranslatableText(StringAt(bqData, PlainKey("desc"))))),
       Over(TextEntry(StringAt(bqData, NameTag), QuestKey(questID, "name"),
                      isTranslatableText(StringAt(bqData, NameTag))),
            TextEntry(StringAt(bqData, DescTag), QuestKey(questID, "description"),
                      isTranslatableText(StringAt(bqData, DescTag)))))

\* the entries of a reward: taken only when the reward asserts to a
\* map[string]interface{}, which a *Reward never does
RewardEntries(questID, rewardID, reward) ==
  IF IsMap(reward)
  THEN Over(TextEntry(StringAt(reward.map, TaggedKey("description", <<"8">>)), RewardKey(questID, rewardID, "description"),
                      isTranslatableText(StringAt(reward.map, TaggedKey("description", <<"8">>)))),
            TextEntry(StringAt(reward.map, TaggedKey("command", <<"8">>)), RewardKey(questID, rewardID, "command"),
                      isPlayerMessage(StringAt(reward.map, TaggedKey("command", <<"8">>)))))
  ELSE EmptyMap

\* the mappings one quest may contribute, one per key GetBetterQuestingData may read
QuestEntries(questID, quest) ==
  LET rewards == MergeAll([r \in DOMAIN quest.Rewards |->
                             RewardEntries(questID, r, quest.Rewards[r])])
  IN IF quest.Properties = Nil \/ GetBetterQuestingKeys(quest.Properties.map) = {}
     THEN {rewards}
     ELSE {Over(SectionEntries(questID, quest.Properties.map[r].map), rewards)
           : r \in GetBetterQuestingKeys(quest.Properties.map)}

QuestLineEntries(lineID, line) ==
  Over(IF line.Name # <<>> /\ isTranslatableText(line.Name)
       THEN [x \in {QuestLineKey(lineID, "name")} |-> line.Name] ELSE EmptyMap,
       IF line.Description # <<>> /\ isTranslatableText(line.Description)
       THEN [x \in {QuestLineKey(lineID, "description")} |-> line.Description] ELSE EmptyMap)

\* ExtractBetterQuestingTranslations: the mappings it may return
ExtractBetterQuestingTranslations(bqFile) ==
  {Over(MergeAll(c), MergeAll([l \in DOMAIN bqFile.QuestLines |->
                                 QuestLineEntries(l, bqFile.QuestLines[l])]))
   : c \in Choices([q \in DOMAIN bqFile.QuestDatabase |->
                      QuestEntries(q, bqFile.QuestDatabase[q])])}

\* the mappings one quest of an NBT-tagged database may contribute
NBTQuestEntries(questID, questData) ==
  IF ~IsMap(questData) \/ TaggedMapKeys(questData.map, "properties") = {}
  THEN {EmptyMap}
  ELSE UNION {
         LET properties == questData.map[pk].map
         IN IF TaggedMapKeys(properties, "betterquesting") = {}
            THEN {EmptyMap}
            ELSE {Over(TextEntry(StringAt(properties[bk].map, NameTag), QuestKey(questID, "name"),
                      isTranslatableText(StringAt(properties[bk].map, NameTag))),
                       TextEntry(StringAt(properties[bk].map, DescTag), QuestKey(questID, "description"),
                      isTranslatableText(StringAt(properties[bk].map, DescTag))))
                  : bk \in TaggedMapKeys(properties, "betterquesting")}
         : pk \in TaggedMapKeys(questData.map, "properties")}

\* ExtractNBTBetterQuestingTranslations: the mappings it may return
ExtractNBTBetterQuestingTranslations(rawData) ==
  IF TaggedMapKeys(rawData, "questDatabase") = {}
  THEN {EmptyMap}
  ELSE UNION {
         {MergeAll(c) : c \in Choices([q \in DOMAIN rawData[qk].map |->
                                         NBTQuestEntries(q, rawData[qk].map[q])])}
         : qk \in TaggedMapKeys(rawData, "questDatabase")}

\* ------------------------------------------------------- standard apply
\* the properties after one of the two blocks of ApplyBetterQuestingTranslations:
\* the section is read, its existing fields plain and tagged are overwritten in
\* place, and it is written back
ApplyField(properties, translated, plain, tagged) ==
  IF properties = Nil \/ GetBetterQuestingKeys(properties.map) = {}
  THEN {properties}
  ELSE {JMap(SetBetterQuestingData(properties.map, r, w,
          LET bqData == properties.map[r].map
              one == IF plain \in DOMAIN bqData THEN Put(bqData, plain, JString(translated))
                     ELSE bqData
          IN JMap(IF tagged \in DOMAIN one THEN Put(one, tagged, JString(translated))
                  ELSE one)))
        : r \in GetBetterQuestingKeys(properties.map),
          w \in SetBetterQuestingKeys(properties.map)}

ApplyQuest(questID, quest, translations) ==
  LET named == IF QuestKey(questID, "name") \in DOMAIN translations
               THEN ApplyField(quest.Properties, translations[QuestKey(questID, "name")],
                               PlainKey("name"), NameTag)
               ELSE {quest.Properties}
  IN UNION {
       {[quest EXCEPT !.Properties = p]
        : p \in IF QuestKey(questID, "description") \in DOMAIN translations
                THEN ApplyField(n, translations[QuestKey(questID, "description")],
                                PlainKey("desc"), DescTag)
                ELSE {n}}
       : n \in named}

ApplyQuestLine(lineID, line, translations) ==
  [line EXCEPT
     !.Name = IF QuestLineKey(lineID, "name") \in DOMAIN translations
              THEN translations[QuestLineKey(lineID, "name")] ELSE @,
     !.Description = IF QuestLineKey(lineID, "description") \in DOMAIN translations
                     THEN translations[QuestLineKey(lineID, "description")] ELSE @]

\* ApplyBetterQuestingTranslations: the files it may leave.  Rewards stay as
\* they are: the type assertion of a *Reward to a map fails.
ApplyBetterQuestingTranslations(bqFile, translations) ==
  {[bqFile EXCEPT
      !.QuestDatabase = db,
      !.QuestLines = [l \in DOMAIN bqFile.QuestLines |->
                        ApplyQuestLine(l, bqFile.QuestLines[l], translations)]]
   : db \in Choices([q \in DOMAIN bqFile.QuestDatabase |->
                       ApplyQuest(q, bqFile.QuestDatabase[q], translations)])}

\* ------------------------------------------------------- quest files
\* an optional text: <<>> when the field is absent, <<t>> when it holds t
Optional(ts) == {<<>>} \cup {<<t>> : t \in ts}

\* the section of a quest in the standard dialect
StdSection(name, desc) ==
  JMap(Object({<<"isMain", JNumber(0)>>}
         \cup (IF name = <<>> THEN {} ELSE {<<"name", JString(name[1])>>})
         \cup (IF desc THEN {<<"desc", JString(TextDig)>>} ELSE {})))

\* a reward that runs a command and has a description
CommandReward(cmd) ==
  JMap(Put(Put(Object({<<"rewardID", JString(<<"c">>)>>, <<"index", JNumber(0)>>}),
               TaggedKey("command", <<"8">>), JString(cmd)),
           TaggedKey("description", <<"8">>), JString(TextFindOre)))

\* a document of the standard dialect: one quest, possibly with a reward, a
\* quest line, and a top-level key that names no field of BetterQuestingFile
StdDocument(name, desc, reward, line, unknown) ==
  Object({<<"format", JString(<<"2">>)>>,
          <<"questDatabase", JMap(Object({<<"0",
              JMap(Object({<<"questID", JNumber(0)>>, <<"name", JString(<<"q">>)>>,
                           <<"properties", JMap(Object({<<"betterquesting",
                                                          StdSection(name, desc)>>}))>>}
                     \cup (IF reward = <<>> THEN {}
                           ELSE {<<"rewards", JMap(Object({<<"0", CommandReward(reward[1])>>}))>>})))>>}))>>}
    \cup (IF line THEN {<<"questLines", JMap(Object({<<"0",
                          JMap(Object({<<"lineID", JNumber(0)>>, <<"name", JString(TextFindOre)>>,
                                       <<"description", JString(TextConstant)>>}))>>}))>>}
          ELSE {})
    \cup (IF unknown THEN {<<"questSettings", JMap(Object({<<"editMode", JNumber(1)>>}))>>}
          ELSE {}))

\* a document of the NBT-tagged dialect: one quest, possibly with a reward
TaggedDocument(name, desc, reward) ==
  LET section ==
        JMap([k \in {TaggedKey("isMain", <<"1">>)}
                     \cup (IF name = <<>> THEN {} ELSE {NameTag})
                     \cup (IF desc THEN {DescTag} ELSE {}) |->
                IF k = NameTag THEN JString(name[1])
                ELSE IF k = DescTag THEN JString(TextDig) ELSE JNumber(0)])
      quest ==
        JMap([k \in {TaggedKey("questID", <<"3">>), TaggedKey("properties", <<"1", "0">>)}
                     \cup (IF reward = <<>> THEN {} ELSE {TaggedKey("rewards", <<"9">>)}) |->
                IF k = TaggedKey("questID", <<"3">>) THEN JNumber(0)
                ELSE IF k = TaggedKey("properties", <<"1", "0">>)
                     THEN JMap([b \in {TaggedKey("betterquesting", <<"1", "0">>)} |-> section])
                     ELSE JMap([r \in {Key0} |-> CommandReward(reward[1])])])
  IN [k \in {TaggedKey("format", <<"8">>), TaggedKey("questDatabase", <<"9">>)} |->
        IF k = TaggedKey("format", <<"8">>) THEN JString(<<"2">>)
        ELSE JMap([q \in {Key0} |-> quest])]

\* a document whose questDatabase is not a map
IllTypedDocument == Object({<<"questDatabase", JString(<<"x">>)>>})

QuestDocuments ==
  {StdDocument(n, d, r, l, u) : n \in Optional(FieldTexts), d \in BOOLEAN,
                                r \in Optional(CommandTexts), l \in BOOLEAN, u \in BOOLEAN}
  \cup {TaggedDocument(n, d, r) : n \in Optional(FieldTexts), d \in BOOLEAN,
                                  r \in Optional(CommandTexts)}
  \cup {IllTypedDocument}

\* what TranslateDataWithSimilarity may return for a mapping: an error, or a
\* mapping of the same keys whose values are the source or a translation of it;
\* the translator is called only for a text to translate
TranslateOutcomes(translations) ==
  (IF translations = EmptyMap THEN {} ELSE {[err |-> TRUE]})
  \cup {[err |-> FALSE, data |-> d, called |-> c]
        : d \in {f \in [DOMAIN translations -> {TextTranslated} \cup Range(translations)] :
                   \A k \in DOMAIN f : f[k] \in {TextTranslated, translations[k]}},
          c \in IF translations = EmptyMap THEN {FALSE} ELSE BOOLEAN}

\* the outcome of a call: the error or not, the mapping extracted, the mapping
\* translated, whether the translator was called, and the output file (Nil
\* when none is written)
Outcome(err, translations, translatedData, called, output) ==
  [err |-> err, translations |-> translations, translatedData |-> translatedData,
   called |-> called, output |-> output]

\* the output documents after the translation, by the format detected
OutputDocuments(doc, isNBTFormat, translatedData) ==
  IF isNBTFormat
  THEN ApplyNBTBetterQuestingTranslations(doc, translatedData)
  ELSE {WriteBetterQuestingFile(f)
        : f \in ApplyBetterQuestingTranslations(ParseBetterQuestingFile(doc), translatedData)}

\* the rest of ProcessBetterQuestingFile once translations is known
ProcessTranslations(doc, isNBTFormat, translations, eng, dryRun) ==
  IF dryRun THEN {Outcome(FALSE, translations, EmptyMap, FALSE, Nil)}
  ELSE IF eng # "openai" THEN {Outcome(TRUE, translations, EmptyMap, FALSE, Nil)}
  ELSE UNION {
         IF t.err THEN {Outcome(TRUE, translations, EmptyMap, TRUE, Nil)}
         ELSE {Outcome(FALSE, translations, t.data, t.called, JMap(out))
               : out \in OutputDocuments(doc, isNBTFormat, t.data)}
         : t \in TranslateOutcomes(translations)}

\* ProcessBetterQuestingFile: the outcomes it may have
ProcessOutcomes(doc, eng, dryRun) ==
  UNION {
    IF nbt # EmptyMap
    THEN ProcessTranslations(doc, TRUE, nbt, eng, dryRun)
    ELSE IF ParseBetterQuestingFile(doc).err
         THEN {Outcome(TRUE, EmptyMap, EmptyMap, FALSE, Nil)}
         ELSE UNION {ProcessTranslations(doc, FALSE, tr, eng, dryRun)
                     : tr \in ExtractBetterQuestingTranslations(ParseBetterQuestingFile(doc))}
    : nbt \in ExtractNBTBetterQuestingTranslations(doc)}

InitQuestFile ==
  /\ NoRun
  /\ pc = "call"
  /\ call \in [doc : QuestDocuments, engine : {"openai", "custom"}, dryRun : BOOLEAN]
  /\ ret = <<>>

ProcessBetterQuestingFile ==
  /\ pc = "call"
  /\ ret' \in ProcessOutcomes(call.doc, call.engine, call.dryRun)
  /\ pc' = "return"
  /\ UNCHANGED <<runVars, call>>

SpecQuestFile == InitQuestFile /\ [][ProcessBetterQuestingFile]_vars

\* the call has returned from a document that decoded
Extracted == pc = "return" /\ ~ParseBetterQuestingFile(call.doc).err

\* the excluded categories of text, by their shape
IdentChars == LowerChars \cup DigitChars \cup {"_"}
IsResourceIdentifier(s) ==
  \E i \in 2..(Len(s) - 1) :
    /\ s[i] = ":"
    /\ AllIn(SubSeq(s, 1, i - 1), IdentChars \cup {".", "-"})
    /\ AllIn(SubSeq(s, i + 1, Len(s)), IdentChars \cup {".", "-", "/"})
IsEnumToken(s) ==
  s # <<>> /\ s[1] \in UpperChars \cup {"_"} /\ AllIn(s, UpperChars \cup DigitChars \cup {"_"})
IsDottedKey(s) ==
  /\ Positions(s, ".") # {}
  /\ AllIn(s, IdentChars \cup {"."})
  /\ s[1] # "." /\ s[Len(s)] # "."
  /\ \A i \in Positions(s, ".") : i + 1 \notin Positions(s, ".")
IsBooleanLiteral(s) == s \in {<<"t", "r", "u", "e">>, <<"f", "a", "l", "s", "e">>}
IsPureInteger(s) == s # <<>> /\ AllIn(s, DigitChars)
IsUUIDShaped(s) ==
  /\ Len(s) = 36
  /\ Positions(s, "-") = {9, 14, 19, 24}
  /\ AllIn(s, HexLowerChars \cup HexUpperChars \cup DigitChars \cup {"-"})
IsHexColor(s) ==
  /\ Len(s) \in {7, 9} /\ s[1] = "#"
  /\ AllIn(Tail(s), HexLowerChars \cup HexUpperChars \cup DigitChars)
Excluded(s) ==
  \/ IsResourceIdentifier(s) \/ IsEnumToken(s) \/ IsDottedKey(s) \/ IsBooleanLiteral(s)
  \/ IsPureInteger(s) \/ IsUUIDShaped(s) \/ IsHexColor(s)

\* C15: no value of the mapping returned by quest extraction, in either dialect,
\* is empty or belongs to an excluded category (resource identifier, all-caps
\* enum token, dotted translation key, boolean literal, pure integer, UUID-shaped
\* string, hex color code).
C15_NoExcludedTextExtracted ==
  Extracted =>
    \A k \in DOMAIN ret.translations :
      ret.translations[k] # <<>> /\ ~Excluded(ret.translations[k])

\* the rewards of the document of the call: <<quest id, reward id, reward>>
RewardsOfQuest(q, quest, key) ==
  IF IsMap(quest) /\ key \in DOMAIN quest.map /\ IsMap(quest.map[key])
  THEN {<<q, r, quest.map[key].map[r]>> : r \in DOMAIN quest.map[key].map}
  ELSE {}
RewardsOfDatabase(doc, dbKey, key) ==
  IF dbKey \in DOMAIN doc /\ IsMap(doc[dbKey])
  THEN UNION {RewardsOfQuest(q, doc[dbKey].map[q], key) : q \in DOMAIN doc[dbKey].map}
  ELSE {}
Rewards ==
  RewardsOfDatabase(call.doc, PlainKey("questDatabase"), PlainKey("rewards"))
  \cup RewardsOfDatabase(call.doc, TaggedKey("questDatabase", <<"9">>), TaggedKey("rewards", <<"9">>))
IsChatCommand(cmd) ==
  \E word \in {<<"/", "s", "a", "y", " ">>, <<"/", "t", "e", "l", "l", " ">>, <<"/", "t", "i", "t", "l", "e", " ">>} :
    HasPrefix(cmd, word) /\ Len(cmd) > Len(word)
CommandOf(reward) == reward.map[TaggedKey("command", <<"8">>)].str
DescriptionOf(reward) == reward.map[TaggedKey("description", <<"8">>)].str

\* C16: for every reward, extraction yields quest.<q>.reward.<r>.command when the
\* command is a /say, /tell or /title command and never when it is not, and
\* quest.<q>.reward.<r>.description when the description is admissible.
C16_RewardTextsExtracted ==
  Extracted =>
    \A x \in Rewards :
      /\ RewardKey(x[1], x[2], "command") \in DOMAIN ret.translations
           <=> IsChatCommand(CommandOf(x[3]))
      /\ ~Excluded(DescriptionOf(x[3])) /\ DescriptionOf(x[3]) # <<>>
           => RewardKey(x[1], x[2], "description") \in DOMAIN ret.translations

\* C17: when extraction yields an empty mapping, ProcessBetterQuestingFile raises
\* no error, calls no translation and writes no output document.
C17_NothingExtractedNothingDone ==
  Extracted /\ ret.translations = EmptyMap =>
    ~ret.err /\ ~ret.called /\ ret.output = Nil

\* C13: with identity translations the document written has the keys and the
\* values of the document read, in either dialect.
C13_IdentityRoundTrip ==
  Extracted /\ ret.output # Nil /\ ret.translatedData = ret.translations =>
    ret.output = JMap(call.doc)

\* ------------------------------------------------------------- validation
\* ValidateBatchResults called with any inputs and any results: the results name
\* their inputs, among them a text that is no input
InitValidate ==
  /\ NoRun
  /\ pc = "call"
  /\ call \in [inputs : SeqsUpTo(Texts, MaxKeys),
               results : SeqsUpTo({BatchTranslationResult(t, Tr(t), TRUE, "")
                                   : t \in Texts \cup {Other}}, MaxKeys)]
  /\ ret = <<>>

\* missingInputs is appended to in the order of the range over inputSet
Validate ==
  /\ pc = "call"
  /\ LET v == ValidateBatchResults(call.inputs, call.results)
     IN \E order \in Perms(v.MissingInputs) :
          ret' = [IsValid |-> v.IsValid, MissingInputs |-> order,
                  MissingCount |-> v.MissingCount]
  /\ pc' = "return"
  /\ UNCHANGED <<runVars, call>>

SpecValidate == InitValidate /\ [][Validate]_vars

\* the distinct input texts that are the Input of no result
MissingOf(inputs, res) ==
  {inputs[i] : i \in 1..Len(inputs)} \ {res[j].Input : j \in 1..Len(res)}

\* C25: MissingInputs holds, each once, the distinct inputs that are the Input of
\* no result; IsValid is true exactly when there is none and MissingCount is
\* their number.  Results for other texts and duplicate results change nothing.
C25_MissingInputsExact ==
  pc = "return" =>
    LET missing == MissingOf(call.inputs, call.results)
    IN /\ {ret.MissingInputs[i] : i \in 1..Len(ret.MissingInputs)} = missing
       /\ Len(ret.MissingInputs) = Cardinality(missing)
       /\ ret.IsValid <=> missing = {}
       /\ ret.MissingCount = Cardinality(missing)

\* a repeated input is missing, beside a duplicate result and a result for a
\* text that is no input
C25_Witness ==
  /\ pc = "return"
  /\ call.inputs = <<<<"a">>, <<"b">>, <<"a">>>>
  /\ Len(call.results) = 3
  /\ call.results[1].Input = <<"b">> /\ call.results[2].Input = <<"b">>
  /\ call.results[3].Input = Other
  /\ ret.MissingInputs = <<<<"a">>>> /\ ~ret.IsValid /\ ret.MissingCount = 1

\* the response lines that start, white space aside, with the ordinal prefix "n."
OrdinalLines(lines, n) ==
  {j \in 1..Len(lines) : HasPrefix(TrimSpace(lines[j]), <<Digit(n), ".">>)}

\* C26: in the numbered-line decode, input n gets the remainder of the response
\* line that starts with "n.", wherever the line stands: a preamble line or a
\* blank line before it does not make it count as missing.
C26_OrdinalLineFoundAnywhere ==
  pc = "decoded" /\ failures = 0 /\ dresp.kind = "text" =>
    \A n \in 1..Len(texts) :
      OrdinalLines(dresp.lines, n) # {} =>
        LET j == CHOOSE x \in OrdinalLines(dresp.lines, n) :
                   \A y \in OrdinalLines(dresp.lines, n) : x <= y
        IN results[n] = ParseLine(keys, texts, [p \in 1..n |-> dresp.lines[j]], n - 1)

\* ------------------------------------------------------ ProcessLanguageFile
\* The input file of ProcessLanguageFile: a file that parses (a JSON file stands
\* for the LANG file too: the format is only handed on to WriteFile), a .json file
\* that is no JSON, a .snbt file, a file of another extension.
InputFiles == {"json", "badjson", "snbt", "unknown"}

\* a parser that takes every file
ParseFileFailsNever(input) == FALSE
\* ParseFile returns an error: json.Decode failed, SNBT is not implemented, the
\* extension names no format
ParseFileFails(input) == input \in {"badjson", "snbt", "unknown"}

InitProcess ==
  /\ procs = NoProcs
  /\ \E e \in Entries : engine = e.engine /\ apiKey = e.apiKey /\ e.engine # "custom"
  /\ batchSize \in BatchSizes
  /\ data \in InputMappings
  /\ dictFile \in UNION {[S -> {Cached}] : S \in SUBSET Texts}
  /\ dict0 = dictFile
  /\ translator = "none"
  /\ run = 1 /\ prev = [returned |-> "none", result |-> EmptyMap]
  /\ InitRun /\ stub = FreeService /\ dresp = NoResponse /\ fileAtStart = "valid"
  /\ pc = "parse"
  /\ call \in [input : InputFiles, dryRun : BOOLEAN]
  /\ ret = <<>>

\* ProcessLanguageFile up to CreateTranslator: the parse error is returned; with
\* dryRun the sample keys are printed and nil is returned
ParseFile ==
  /\ pc = "parse"
  /\ returned' = IF ParseFileFails(call.input) THEN "error"
                 ELSE IF call.dryRun THEN "nil" ELSE returned
  /\ pc' = IF ParseFileFails(call.input) \/ call.dryRun THEN "done" ELSE "create"
  /\ UNCHANGED <<inputVars, dictFile, translator, dict, todo, result, batchVars, ghostVars,
                 ioVars, outputWritten, run, prev>>

\* CreateTranslator hands out no translator but the OpenAI one, so the loop for
\* other translators is no step of ProcessLanguageFile
NextProcess ==
  \/ ParseFile
  \/ CreateTranslator
  \/ LoadFromFile
  \/ Partition
  \/ Dispatch
  \/ TranslateChunk
  \/ ValidateAndRetry
  \/ TranslateOne
  \/ SaveToFile
  \/ WriteFile

SpecProcess == InitProcess /\ [][NextProcess]_vars

\* C22: with dryRun, ProcessLanguageFile on a parsable input returns without
\* error, writes no output file, creates no translator, makes no translation
\* call and neither reads nor writes the dictionary file; on an input that cannot
\* be parsed it returns an error.
C22_DryRunTouchesNothing ==
  /\ call.dryRun =>
       /\ ~outputWritten /\ translator = "none" /\ requests = 0
       /\ reads = 0 /\ writes = 0 /\ dictFile = dict0
       /\ pc \in {"parse", "done"}
       /\ pc = "done" /\ call.input = "json" => returned = "nil"
  /\ pc = "done" /\ call.input # "json" => returned = "error"

C22_Witness ==
  /\ pc = "done" /\ call.dryRun /\ call.input = "json" /\ returned = "nil"
  /\ data # EmptyMap /\ engine = "openai" /\ apiKey

\* C28: in batch mode every cache-miss key gets the translation of the result
\* decoded at its own position of its own chunk when that result is valid, and its
\* source text otherwise, also when another key carries the same source text.
C28_KeyGetsItsOwnResult ==
  Returned /\ returned = "map" /\ batchSize > 1 /\ translator = "openai" =>
    \A i \in 1..Len(pendingKeys) :
      LET k == pendingKeys[i]
      IN result[k] = IF itemRes[k].IsValid THEN itemRes[k].Output ELSE data[k]

\* C29: every entry a run adds to the dictionary has a translation that is not
\* empty and differs from its source text, in the batch path and in the
\* single-item path alike
C29_AddedEntriesAreValid ==
  \A t \in DOMAIN dict :
    (t \notin DOMAIN dict0 \/ dict[t] # dict0[t]) => dict[t] # Empty /\ dict[t] # t

\* ------------------------------------------- a dictionary file that holds entries
\* A run that starts on a file with entries: one that loads, one that cannot be
\* read (os.ReadFile fails with an error other than "not exist"), or one of which
\* only the well-typed entries load.  dictFile holds the entries of the file.
InitStored ==
  /\ InitInputs /\ InitRun /\ stub = FreeService /\ dresp = NoResponse /\ NoCall
  /\ fileAtStart \in {"valid", "unreadable", "illTyped"}

SpecStored == InitStored /\ [][Next]_vars

\* C30: a run never removes an entry from the dictionary file: every entry the
\* file held before the run is still in the file, also when loading failed
C30_RunKeepsStoredEntries ==
  \A t \in DOMAIN dict0 : t \in DOMAIN dictFile

\* --------------------------------------------- two runs on one dictionary file
\* Two calls of TranslateDataWithSimilarity go on at the same time against the
\* same dictionary.json.  Each has its own TermDictionary; the file is shared.
\* Of a run: where it stands, whether it runs in batch mode, its dictionary, the
\* source texts its loop has not handled yet, the texts whose entries it added,
\* and whether the other run had ended when this one loaded the file.
Procs == {1, 2}
OtherProc(r) == 3 - r
ProcStart(batch, todoTexts) ==
  [pc |-> "load", batch |-> batch, dict |-> EmptyMap, todo |-> todoTexts, added |-> {},
   sawDone |-> FALSE]

InitTwoRuns ==
  /\ engine = "openai" /\ apiKey = TRUE /\ translator = "openai"
  /\ stub = FreeService /\ dresp = NoResponse /\ NoCall /\ fileAtStart = "valid"
  /\ batchSize = 1
  /\ data = EmptyMap
  /\ dictFile \in UNION {[S -> {Cached}] : S \in SUBSET Texts}
  /\ dict0 = dictFile
  /\ run = 1 /\ prev = [returned |-> "none", result |-> EmptyMap]
  /\ InitRun
  /\ pc = "runs"
  /\ procs \in [Procs -> {ProcStart(b, S) : b \in BOOLEAN, S \in SUBSET Texts}]

\* everything but the file and the two runs
soloVars == <<engine, apiKey, stub, batchSize, data, dict0, dresp, call, ret, fileAtStart,
              translator, pc, dict, todo, result, returned, batchVars, ghostVars, ioVars,
              outputWritten, run, prev>>

\* a load that ignores the file
LoadFromFileByNothing(file) == EmptyMap
\* dict.LoadFromFile(dictPath) of a file that parses: the entries of the file
LoadFromFileBy(file) == file

\* NewTermDictionary and LoadFromFile at the start of a run
LoadRun(r) ==
  /\ procs[r].pc = "load"
  /\ procs' = [procs EXCEPT ![r].dict = LoadFromFileBy(dictFile),
                            ![r].sawDone = procs[OtherProc(r)].pc = "done",
                            ![r].pc = IF procs[r].todo = {} THEN "save" ELSE "translate"]
  /\ UNCHANGED <<soloVars, dictFile>>

\* one iteration of the single-item loop: a cache hit, or a call of the service
\* that fails or whose translation is added to the dictionary in memory
TranslateRun(r) ==
  /\ procs[r].pc = "translate" /\ ~procs[r].batch
  /\ \E t \in procs[r].todo, ok \in BOOLEAN :
       LET hit == GetTranslationFound(procs[r].dict, t)
           add == ~hit /\ ok
       IN procs' = [procs EXCEPT
                      ![r].dict = IF add THEN AddTerm(@, t, Tr(t)) ELSE @,
                      ![r].added = IF add THEN @ \cup {t} ELSE @,
                      ![r].todo = @ \ {t},
                      ![r].pc = IF procs[r].todo = {t} THEN "save" ELSE "translate"]
  /\ UNCHANGED <<soloVars, dictFile>>

RECURSIVE AddAll(_, _)
\* AddTerm for every text of a set
AddAll(d, ts) ==
  IF ts = {} THEN d
  ELSE LET t == CHOOSE x \in ts : TRUE IN AddAll(AddTerm(d, t, Tr(t)), ts \ {t})

\* batch mode: the cache misses go out as one chunk; unless the request fails the
\* batch result callback adds the valid results and saves the dictionary
ChunkRun(r) ==
  /\ procs[r].pc = "translate" /\ procs[r].batch
  /\ LET pending == {t \in procs[r].todo : ~GetTranslationFound(procs[r].dict, t)}
     IN \E valid \in SUBSET pending, failed \in BOOLEAN :
          LET called == pending # {} /\ ~failed
              after == IF called THEN AddAll(procs[r].dict, valid) ELSE procs[r].dict
          IN /\ procs' = [procs EXCEPT ![r].dict = after,
                                       ![r].added = IF called THEN @ \cup valid ELSE @,
                                       ![r].todo = {},
                                       ![r].pc = "save"]
             /\ dictFile' = IF called THEN after ELSE dictFile
  /\ UNCHANGED soloVars

\* dict.SaveToFile(dictPath) at the end of a run
SaveRun(r) ==
  /\ procs[r].pc = "save"
  /\ dictFile' = procs[r].dict
  /\ procs' = [procs EXCEPT ![r].pc = "done"]
  /\ UNCHANGED soloVars

NextTwoRuns == \E r \in Procs : LoadRun(r) \/ TranslateRun(r) \/ ChunkRun(r) \/ SaveRun(r)

SpecTwoRuns == InitTwoRuns /\ [][NextTwoRuns]_vars

\* both runs have ended
BothDone == \A r \in Procs : procs[r].pc = "done"
\* the file lacks an entry that run r added
Lost(r) == \E t \in procs[r].added : t \notin DOMAIN dictFile
\* one run had ended before the other loaded the file
Serialized == \E r \in Procs : procs[r].sawDone

\* C27: when both runs have ended and the file lacks an entry that one of them
\* added, the two runs overlapped; runs of which one ended before the other
\* loaded leave the entries of both in the file.  The loss itself is reached.
C27_LostOnlyWhenInterleaved ==
  BothDone => \A r \in Procs : Lost(r) => ~Serialized
C27_LostWhenInterleaved ==
  /\ BothDone /\ ~Serialized
  /\ \E r \in Procs : Lost(r) /\ procs[OtherProc(r)].added # {}

\* ------------------------------------------------------------ locale codes
\* Locale codes and Minecraft versions are strings: sequences of characters.
LowerLetters == <<"a", "b", "c", "d", "e", "f", "g", "h", "i", "j", "k", "l", "m", "n",
                  "o", "p", "q", "r", "s", "t", "u", "v", "w", "x", "y", "z">>
UpperLetters == <<"A", "B", "C", "D", "E", "F", "G", "H", "I", "J", "K", "L", "M", "N",
                  "O", "P", "Q", "R", "S", "T", "U", "V", "W", "X", "Y", "Z">>
\* strings.ToLower, strings.ToUpper
ToLower(s) ==
  [i \in 1..Len(s) |->
     IF s[i] \in UpperChars
     THEN LowerLetters[CHOOSE n \in 1..26 : UpperLetters[n] = s[i]] ELSE s[i]]
ToUpper(s) ==
  [i \in 1..Len(s) |->
     IF s[i] \in LowerChars
     THEN UpperLetters[CHOOSE n \in 1..26 : LowerLetters[n] = s[i]] ELSE s[i]]
RECURSIVE Split(_, _)
\* strings.Split(s, sep) for a separator of one character
Split(s, sep) ==
  IF Positions(s, sep) = {} THEN <<s>>
  ELSE LET i == CHOOSE p \in Positions(s, sep) : \A q \in Positions(s, sep) : p <= q
       IN <<SubSeq(s, 1, i - 1)>> \o Split(SubSeq(s, i + 1, Len(s)), sep)

\* the versions IsLegacyMinecraftVersion lists as legacy
ListedLegacy ==
  {<<"1", ".", "7">>, <<"1", ".", "7", ".", "2">>, <<"1", ".", "7", ".", "1", "0">>,
   <<"1", ".", "8">>, <<"1", ".", "8", ".", "8">>, <<"1", ".", "8", ".", "9">>,
   <<"1", ".", "9">>, <<"1", ".", "9", ".", "1">>, <<"1", ".", "9", ".", "2">>,
   <<"1", ".", "9", ".", "3">>, <<"1", ".", "9", ".", "4">>,
   <<"1", ".", "1", "0">>, <<"1", ".", "1", "0", ".", "1">>,
   <<"1", ".", "1", "0", ".", "2">>}
\* IsLegacyMinecraftVersion: a switch over version strings; any other is modern
IsLegacyMinecraftVersion(version) == version \in ListedLegacy
FormatModernLocaleCode(localeCode) == ToLower(localeCode)
FormatLegacyLocaleCode(localeCode) ==
  LET parts == Split(ToLower(localeCode), "_")
  IN IF Len(parts) = 2 THEN parts[1] \o <<"_">> \o ToUpper(parts[2])
     ELSE ToLower(localeCode)
FormatLocaleCodeOf(localeCode, minecraftVersion) ==
  IF IsLegacyMinecraftVersion(minecraftVersion) THEN FormatLegacyLocaleCode(localeCode)
  ELSE FormatModernLocaleCode(localeCode)

\* the prefixes isLegacyVersion looks for: 1.0, 1.1, ..., 1.10
legacyVersions ==
  {<<"1", ".", Digit(n)>> : n \in 0..9} \cup {<<"1", ".", "1", "0">>}
isLegacyVersion(version) == \E legacy \in legacyVersions : HasPrefix(version, legacy)
\* the codes of MinecraftLanguages the sample codes meet
MinecraftLanguages ==
  {<<"j", "a", "_", "j", "p">>, <<"e", "n", "_", "u", "s">>, <<"z", "h", "_", "c", "n">>,
   <<"b", "a", "r">>}
ValidateLanguageCode(code) == ToLower(code) \in MinecraftLanguages
FormatLanguageCodeForVersionOf(code, minecraftVersion) ==
  IF ~ValidateLanguageCode(code) THEN [out |-> <<>>, err |-> TRUE]
  ELSE LET normalizedCode == ToLower(code)
           parts == Split(normalizedCode, "_")
       IN IF isLegacyVersion(minecraftVersion) /\ Len(parts) = 2
          THEN [out |-> ToLower(parts[1]) \o <<"_">> \o ToUpper(parts[2]), err |-> FALSE]
          ELSE [out |-> normalizedCode, err |-> FALSE]

LocaleCodes ==
  {<<"j", "a", "_", "j", "p">>, <<"J", "A", "_", "J", "P">>, <<"j", "a", "_", "J", "P">>,
   <<"e", "n", "_", "u", "s">>, <<"z", "h", "_", "c", "n">>, <<"b", "a", "r">>,
   <<"s", "i", "m", "p", "l", "e">>, <<"x", "x", "_", "y", "y">>,
   <<"a", "_", "b", "_", "c">>}
MinecraftVersions ==
  {<<"1", ".", "0">>, <<"1", ".", "6", ".", "4">>, <<"1", ".", "7", ".", "1", "0">>,
   <<"1", ".", "8", ".", "9">>, <<"1", ".", "9">>, <<"1", ".", "1", "0">>,
   <<"1", ".", "1", "0", ".", "2">>, <<"1", ".", "1", "1">>,
   <<"1", ".", "1", "2", ".", "2">>, <<"1", ".", "1", "6">>, <<"1", ".", "2", "0">>,
   <<"1", ".", "2", "1">>, <<"2", ".", "0">>}

InitLocale ==
  /\ NoRun
  /\ pc = "call"
  /\ call \in [fn : {"FormatLocaleCode", "FormatLanguageCodeForVersion"},
               code : LocaleCodes, minecraftVersion : MinecraftVersions]
  /\ ret = <<>>

FormatLocaleCode ==
  /\ pc = "call" /\ call.fn = "FormatLocaleCode"
  /\ ret' = [out |-> FormatLocaleCodeOf(call.code, call.minecraftVersion), err |-> FALSE]
  /\ pc' = "return"
  /\ UNCHANGED <<runVars, call>>

FormatLanguageCodeForVersion ==
  /\ pc = "call" /\ call.fn = "FormatLanguageCodeForVersion"
  /\ ret' = FormatLanguageCodeForVersionOf(call.code, call.minecraftVersion)
  /\ pc' = "return"
  /\ UNCHANGED <<runVars, call>>

NextLocale == FormatLocaleCode \/ FormatLanguageCodeForVersion

SpecLocale == InitLocale /\ [][NextLocale]_vars

\* the number a string of digits writes
RECURSIVE NumberOf(_)
NumberOf(s) ==
  IF s = <<>> THEN 0
  ELSE 10 * NumberOf(SubSeq(s, 1, Len(s) - 1))
       + (CHOOSE n \in 0..9 : Digit(n) = s[Len(s)])
\* component i of a version, 0 when the version has no such component
VersionPart(version, i) ==
  LET parts == Split(version, ".")
  IN IF i <= Len(parts) THEN NumberOf(parts[i]) ELSE 0
\* the version is 1.10.2 or earlier
AtMost1102(version) ==
  LET a == VersionPart(version, 1)
      b == VersionPart(version, 2)
      c == VersionPart(version, 3)
  IN a < 1 \/ (a = 1 /\ (b < 10 \/ (b = 10 /\ c <= 2)))
\* the form a version asks for: ll_CC up to 1.10.2 and lowercase from 1.11 on; a
\* code without exactly one underscore is lowercased in both
LocaleFormOf(code, version) ==
  LET parts == Split(ToLower(code), "_")
  IN IF AtMost1102(version) /\ Len(parts) = 2
     THEN parts[1] \o <<"_">> \o ToUpper(parts[2])
     ELSE ToLower(code)

\* C23: FormatLocaleCode returns the mixed-case form ll_CC for every version
\* 1.10.2 or earlier and the lowercase form for every version 1.11 or later
C23_LocaleFormFollowsVersion ==
  pc = "return" /\ call.fn = "FormatLocaleCode" =>
    ret.out = LocaleFormOf(call.code, call.minecraftVersion)

\* C24: FormatLanguageCodeForVersion returns an error for a code that is not in
\* the supported list, and otherwise the lowercase code for every version 1.11 or
\* later and the form ll_CC for every version 1.10.2 or earlier
C24_LanguageCodeFollowsVersion ==
  pc = "return" /\ call.fn = "FormatLanguageCodeForVersion" =>
    IF ToLower(call.code) \in MinecraftLanguages
    THEN ~ret.err /\ ret.out = LocaleFormOf(call.code, call.minecraftVersion)
    ELSE ret.err

\* ------------------------------------------------- language files on disk
\* A file is the sequence of its characters.
\* writeLangFile: a line key=value per entry, in the order of the range loop
RECURSIVE LangLines(_, _)
LangLines(m, order) ==
  IF order = <<>> THEN <<>>
  ELSE Head(order) \o <<"=">> \o m[Head(order)] \o <<"\n">> \o LangLines(m, Tail(order))
writeLangFile(m) == {LangLines(m, order) : order \in Perms(DOMAIN m)}

\* bufio.Scanner with ScanLines: the text between line feeds; no last empty line
ScanLines(file) ==
  LET lines == Split(file, "\n")
  IN IF lines[Len(lines)] = <<>> THEN SubSeq(lines, 1, Len(lines) - 1) ELSE lines
\* strings.SplitN(line, "=", 2)
SplitN2(line) ==
  IF Index(line, "=") < 0 THEN <<line>>
  ELSE <<SubSeq(line, 1, Index(line, "=")), SubSeq(line, Index(line, "=") + 2, Len(line))>>
RECURSIVE LangEntries(_, _)
\* the loop of parseLangFile over the lines, result being the entries so far
LangEntries(lines, parsed) ==
  IF lines = <<>> THEN parsed
  ELSE LET line == TrimSpace(Head(lines))
           parts == SplitN2(line)
       IN IF line = <<>> \/ HasPrefix(line, <<"#">>) \/ Len(parts) # 2
          THEN LangEntries(Tail(lines), parsed)
          ELSE LangEntries(Tail(lines),
                           Put(parsed, TrimSpace(parts[1]), TrimSpace(parts[2])))
parseLangFile(file) == [data |-> LangEntries(ScanLines(file), EmptyMap), err |-> FALSE]

\* encoding/json writes a string between quotes and escapes the quote, the
\* backslash and the line feed
EscapeChar(c) ==
  CASE c = "\"" -> <<"\\", "\"">>
    [] c = "\\" -> <<"\\", "\\">>
    [] c = "\n" -> <<"\\", "n">>
    [] OTHER -> <<c>>
RECURSIVE Escape(_)
Escape(s) == IF s = <<>> THEN <<>> ELSE EscapeChar(Head(s)) \o Escape(Tail(s))
Quoted(s) == <<"\"">> \o Escape(s) \o <<"\"">>
RECURSIVE JsonMembers(_, _)
JsonMembers(m, order) ==
  IF order = <<>> THEN <<>>
  ELSE Quoted(Head(order)) \o <<":">> \o Quoted(m[Head(order)])
       \o (IF Len(order) > 1 THEN <<",">> ELSE <<>>) \o JsonMembers(m, Tail(order))
\* writeJSONFile: one object with a string member per entry (the indentation, which
\* the decoder skips, is left out)
writeJSONFile(m) ==
  {<<"{">> \o JsonMembers(m, order) \o <<"}">> \o <<"\n">> : order \in Perms(DOMAIN m)}

RECURSIVE ScanString(_, _, _)
\* the decoder inside a string, at position i with the characters read so far
ScanString(s, i, acc) ==
  IF i > Len(s) THEN [err |-> TRUE, str |-> acc, next |-> i]
  ELSE IF s[i] = "\"" THEN [err |-> FALSE, str |-> acc, next |-> i + 1]
  ELSE IF s[i] = "\\"
       THEN IF i + 1 > Len(s) THEN [err |-> TRUE, str |-> acc, next |-> i]
            ELSE ScanString(s, i + 2, acc \o <<IF s[i + 1] = "n" THEN "\n" ELSE s[i + 1]>>)
  ELSE ScanString(s, i + 1, acc \o <<s[i]>>)
DecodeString(s, i) ==
  IF i > Len(s) \/ s[i] # "\"" THEN [err |-> TRUE, str |-> <<>>, next |-> i]
  ELSE ScanString(s, i + 1, <<>>)
RECURSIVE DecodeMembers(_, _, _)
\* the decoder inside an object, at position i with the members read so far; a
\* member met again replaces the earlier one
DecodeMembers(s, i, m) ==
  IF i > Len(s) THEN [err |-> TRUE, data |-> m]
  ELSE IF s[i] = "}" THEN [err |-> FALSE, data |-> m]
  ELSE IF s[i] = "," THEN DecodeMembers(s, i + 1, m)
  ELSE LET k == DecodeString(s, i)
           v == DecodeString(s, k.next + 1)
       IN IF k.err \/ k.next > Len(s) \/ s[k.next] # ":" \/ v.err
          THEN [err |-> TRUE, data |-> m]
          ELSE DecodeMembers(s, v.next, Put(m, k.str, v.str))
\* flattenJSON of an object whose members are strings: the key is the member's name
flattenJSON(m) == [k \in DOMAIN m |-> m[k]]
parseJSONFile(file) ==
  IF file = <<>> \/ file[1] # "{" THEN [data |-> EmptyMap, err |-> TRUE]
  ELSE LET d == DecodeMembers(file, 2, EmptyMap)
       IN IF d.err THEN [data |-> EmptyMap, err |-> TRUE]
          ELSE [data |-> flattenJSON(d.data), err |-> FALSE]

\* sample keys and texts: plain ones, and ones with spaces, "=", "#", a quote, a
\* backslash or a line feed in them
FileKeys == {<<"a">>, <<"b">>, <<"a", "=", "b">>, <<"#", "a">>, <<" ", "a">>, <<>>}
FileTexts ==
  {<<"A">>, <<"A", " ", "B">>, <<" ", "A">>, <<"A", " ">>, <<"A", "\n", "B">>,
   <<"A", "=", "B">>, <<"\"", "A", "\\">>, <<>>}
FileMappings ==
  UNION {[S -> FileTexts] : S \in {T \in SUBSET FileKeys : Cardinality(T) <= 2}}

InitFiles ==
  /\ NoRun
  /\ pc = "call"
  /\ call \in [data : FileMappings, format : {"json", "lang"}]
  /\ ret = <<>>

\* WriteFile(path, data, format) and then ParseFile(path)
WriteAndParse ==
  /\ pc = "call"
  /\ \E file \in IF call.format = "json" THEN writeJSONFile(call.data)
                 ELSE writeLangFile(call.data) :
       ret' = IF call.format = "json" THEN parseJSONFile(file) ELSE parseLangFile(file)
  /\ pc' = "return"
  /\ UNCHANGED <<runVars, call>>

SpecFiles == InitFiles /\ [][WriteAndParse]_vars

\* C21: for every mapping and each plain format, the file WriteFile wrote parses
\* without error into a mapping equal to the one written
C21_WriteParseRoundTrip ==
  pc = "return" => ~ret.err /\ ret.data = call.data

====
